---- MODULE Spec2Model ----
(***************************************************************************)
(* Attendance tracker: the JSON-file backed REST API of server.js (users,  *)
(* attendance ledger, activity log, window reports) and the browser-side   *)
(* reporting helpers (AdvancedReporting, DashboardCharts,                  *)
(* DashboardEnhancements) that filter the ledger by time window, and the   *)
(* aggregation and analytics cache of SuperDatabase.                       *)
(*                                                                         *)
(* Time is counted in minutes since local midnight of 1 January of a       *)
(* non-leap year; the local time zone is UTC (no daylight saving).         *)
(***************************************************************************)
EXTENDS Integers, Sequences, FiniteSets, TLC

VARIABLES
    users,       \* database/users.json
    attendance,  \* database/attendance.json: the ledger
    logs,        \* database/logs.json
    clock,       \* the wall clock, Date.now()
    tokens,      \* JWT payloads issued by /api/login
    req,         \* per connection: the request in flight and its locals
    resp,        \* the response sent by the latest step of the server, if any
    client,      \* the latest result returned by a helper outside the routes
    analyticsCache,  \* SuperDatabase.analyticsCache
    call,        \* per caller: the getDataAnalytics call in flight and its locals
    loginAttempts,   \* SuperDatabase.loginAttempts
    failures,    \* per key: the failed attempts since the last success or expiry
    tasks,       \* database/tasks.json
    devices,     \* database/devices.json
    operation_logs,  \* database/operation_logs.json
    backups      \* the backups directory: the backup files by name

\* The state of SuperDatabase beside its analytics cache, and the files
\* only it and the task routes use.
superdb == <<loginAttempts, failures, tasks, devices, operation_logs, backups>>

vars == <<users, attendance, logs, clock, tokens, req, resp, client, analyticsCache,
          call, superdb>>

(***************************************************************************)
(* Bounds of the model.                                                    *)
(***************************************************************************)
MaxLedger == 2
MaxLogs == 2
MaxUsers == 4
MaxClockDays == 8
MaxRecords == 2
MaxEvents == 3
MaxCacheClock == 6
MaxToday == 14
MaxScoreDays == 8
MaxFailed == 6
MaxSecurityClock == 30
MaxBackupRuns == 26
MaxRestoreRuns == 2
MaxOperations == 6
MaxWrites == 3
MaxTasks == 1

Procs == {1, 2}

(***************************************************************************)
(* Time.                                                                   *)
(***************************************************************************)
MinuteMs == 1
HourMs == 60 * MinuteMs
DayMs == 24 * HourMs
WeekMs == 7 * 24 * HourMs
MonthMs == 30 * 24 * HourMs
MaxClock == MaxClockDays * DayMs

\* The value of an unparseable date (Invalid Date, getTime() is NaN).
NaN == -1

\* Date.prototype.toISOString, and new Date(string): a string that is no
\* ISO date parses to Invalid Date.
ToISOString(t) == [iso |-> TRUE, ms |-> t]
ParseDate(s) == IF s.iso THEN s.ms ELSE NaN

\* The relational operators on dates: any comparison with NaN is false.
DateGE(a, b) == a # NaN /\ b # NaN /\ a >= b
DateLE(a, b) == a # NaN /\ b # NaN /\ a <= b

\* Date.prototype.toDateString, as the local calendar day.
ToDateString(t) == IF t = NaN THEN NaN ELSE t \div DayMs

(***************************************************************************)
(* Sequences.                                                              *)
(***************************************************************************)
IsPrefix(s, t) == Len(s) <= Len(t) /\ SubSeq(t, 1, Len(s)) = s

Range(s) == {s[i] : i \in DOMAIN s}

Count(s, x) == Cardinality({i \in DOMAIN s : s[i] = x})

MaxOf(S) == CHOOSE m \in S : \A n \in S : n <= m

(***************************************************************************)
(* Records of the three collections.                                       *)
(***************************************************************************)
\* bcryptjs: hash, and compare a password with a hash.
Hash(pw) == <<"bcrypt", pw>>
Compare(pw, h) == h = Hash(pw)

User(id, username, email, pw, role, mfa, created) ==
    [id |-> id, username |-> username, email |-> email, password |-> Hash(pw),
     role |-> role, mfaEnabled |-> mfa, isActive |-> TRUE,
     createdAt |-> ToISOString(created)]

defaultUsers ==
    << User(1, "admin", "admin@company.com", "admin123", "admin", TRUE, 0),
       User(2, "supervisor1", "supervisor@company.com", "super123", "supervisor", FALSE, 0),
       User(3, "employee1", "employee@company.com", "emp123", "employee", FALSE, 0) >>

\* The payload jwt.sign is given at login, which authenticateToken puts in req.user.
Token(u) == [id |-> u.id, username |-> u.username, role |-> u.role]
NoToken == [id |-> 0, username |-> "", role |-> ""]

\* The record POST /api/attendance builds.
Record(user, action, now) ==
    [id |-> now, userId |-> user.id, username |-> user.username, action |-> action,
     timestamp |-> ToISOString(now), location |-> "Office"]
NoRec == [id |-> NaN, userId |-> 0, username |-> "", action |-> "",
          timestamp |-> [iso |-> FALSE, ms |-> 0], location |-> ""]

\* The entry logActivity pushes.
LogEntry(type, description, userId, now) ==
    [id |-> now, type |-> type, description |-> description, userId |-> userId,
     timestamp |-> ToISOString(now), ipAddress |-> "127.0.0.1"]
NoEntry == LogEntry("", <<>>, 0, NaN)

(***************************************************************************)
(* Inputs of the requests.                                                 *)
(***************************************************************************)
ValidActions == {"sign-in", "sign-out"}
Actions == ValidActions \cup {"lunch"}
LoginInputs ==
    { <<"employee1", "emp123">>, <<"supervisor1", "super123">>,
      <<"employee1", "wrong">>, <<"nobody", "emp123">> }
RegisterInputs ==
    { [username |-> "temp1", email |-> "temp@company.com"],
      [username |-> "employee1", email |-> "other@company.com"] }
ReportTypes == {"daily", "weekly", "monthly", "custom", "yearly"}
\* The clock steps drawn: exactly seven days, and exactly eight.
TickSteps == {WeekMs, WeekMs + DayMs}

(***************************************************************************)
(* The state of one connection, and the responses.                         *)
(***************************************************************************)
Idle ==
    [pc |-> "idle", kind |-> "none", user |-> NoToken, action |-> "",
     att |-> <<>>, rec |-> NoRec, usnap |-> <<>>, input |-> [username |-> "", email |-> ""],
     lsnap |-> <<>>, entry |-> NoEntry, wrote |-> FALSE, overlap |-> FALSE,
     overwritten |-> FALSE]

\* A response: its route and status, the slot it answers, and its body (the
\* record of POST /api/attendance, the records of GET /api/attendance, the
\* report of GET /api/reports/:type with the inputs it was computed from).
\* afterPost/afterRec: the response sent by the step before was a 201 of
\* POST /api/attendance, with that record.
NoResp ==
    [type |-> "none", status |-> 0, slot |-> 0, rec |-> NoRec, records |-> <<>>,
     rtype |-> "", totalRecords |-> 0, signIns |-> 0, signOuts |-> 0,
     now |-> 0, ledger |-> <<>>, afterPost |-> FALSE, afterRec |-> NoRec]

Status(type, p, status) == [NoResp EXCEPT !.type = type, !.slot = p, !.status = status]

NoClient == [op |-> "none"]

\* new Map(), and a caller with no getDataAnalytics call in flight.
NewMap == [k \in {} |-> 0]
NoCall == [pc |-> "idle", type |-> "", options |-> [dateRange |-> 0], records |-> <<>>,
           readAt |-> 0, calledAt |-> 0]

\* new SuperDatabase(): no attempts recorded; the files of the tasks and
\* devices empty (initDatabase), no operation log and no backup yet.
InitSuperDb ==
    /\ loginAttempts = NewMap
    /\ failures = NewMap
    /\ tasks = <<>>
    /\ devices = <<>>
    /\ operation_logs = <<>>
    /\ backups = NewMap

\* initDatabase: the users file with the default users, the other files empty.
Init ==
    /\ users = defaultUsers
    /\ attendance = <<>>
    /\ logs = <<>>
    /\ clock = 0
    /\ tokens = {}
    /\ req = [p \in Procs |-> Idle]
    /\ resp = NoResp
    /\ client = NoClient
    /\ analyticsCache = NewMap
    /\ call = [c \in Procs |-> NoCall]
    /\ InitSuperDb

\* The wall clock advances between any two steps, or does not.
Tick(d) ==
    /\ clock + d <= MaxClock
    /\ clock' = clock + d
    /\ UNCHANGED <<users, attendance, logs, tokens, req, resp, client, analyticsCache, call, superdb>>

(***************************************************************************)
(* POST /api/login.                                                        *)
(***************************************************************************)
\* users.find(u => u.username === username && u.isActive): the first match.
FindActive(us, username) ==
    LET hits == {i \in DOMAIN us : us[i].username = username /\ us[i].isActive}
    IN  IF hits = {} THEN 0 ELSE CHOOSE i \in hits : \A j \in hits : i <= j

\* The handler up to its call of logActivity: 500 when the users file cannot
\* be read, 401 on unknown user or wrong password.
LoginStart(p, username, password, readOk) ==
    /\ req[p].pc = "idle"
    /\ Len(logs) < MaxLogs
    /\ LET i == FindActive(users, username)
       IN  IF ~readOk
           THEN /\ req' = req
                /\ resp' = Status("login", p, 500)
           ELSE IF i = 0 \/ ~Compare(password, users[i].password)
           THEN /\ req' = req
                /\ resp' = Status("login", p, 401)
           ELSE /\ req' = [req EXCEPT ![p] =
                              [Idle EXCEPT !.kind = "login", !.pc = "logRead",
                                           !.user = Token(users[i])]]
                /\ resp' = NoResp
    /\ UNCHANGED <<users, attendance, logs, clock, tokens, client, analyticsCache, call, superdb>>

(***************************************************************************)
(* POST /api/attendance.                                                   *)
(***************************************************************************)
\* readData(ATTENDANCE_FILE) and the record built when it returns.
PostRead(p, user, action) ==
    /\ req[p].pc = "idle"
    /\ Len(attendance) < MaxLedger
    /\ Len(logs) < MaxLogs
    /\ req' = [req EXCEPT ![p] =
                  [Idle EXCEPT !.kind = "post", !.pc = "write", !.user = user,
                               !.action = action, !.att = attendance,
                               !.rec = Record(user, action, clock)]]
    /\ resp' = NoResp
    /\ UNCHANGED <<users, attendance, logs, clock, tokens, client, analyticsCache, call, superdb>>

\* readData throws: the catch block answers 500.
PostReadFail(p, user, action) ==
    /\ req[p].pc = "idle"
    /\ resp' = Status("post", p, 500)
    /\ UNCHANGED <<users, attendance, logs, clock, tokens, req, client, analyticsCache, call, superdb>>

\* Faulty variant of PostWrite: only the new record is written.
PostWriteRecordOnly(p) ==
    /\ req[p].pc = "write"
    /\ attendance' = <<req[p].rec>>
    /\ req' = [q \in Procs |->
                  IF q = p THEN [req[p] EXCEPT !.pc = "logRead", !.wrote = TRUE]
                  ELSE [req[q] EXCEPT !.overlap = (req[q].pc = "write"),
                                      !.overwritten = @ \/ req[q].wrote]]
    /\ resp' = NoResp
    /\ UNCHANGED <<users, logs, clock, tokens, client, analyticsCache, call, superdb>>

\* Variant of PostWrite that appends to the file as it is when written,
\* not as it was when read.
PostWriteReread(p) ==
    /\ req[p].pc = "write"
    /\ attendance' = Append(attendance, req[p].rec)
    /\ req' = [q \in Procs |->
                  IF q = p THEN [req[p] EXCEPT !.pc = "logRead", !.wrote = TRUE]
                  ELSE [req[q] EXCEPT !.overlap = (req[q].pc = "write"),
                                      !.overwritten = @ \/ req[q].wrote]]
    /\ resp' = NoResp
    /\ UNCHANGED <<users, logs, clock, tokens, client, analyticsCache, call, superdb>>

\* attendance.push(record); writeData(ATTENDANCE_FILE, attendance): the whole
\* file is replaced by what this request read, plus its record. (overlap: the
\* requests that had read the file and not yet written it when this one wrote;
\* overwritten: those that had written it and not yet responded.)
PostWrite(p) ==
    /\ req[p].pc = "write"
    /\ attendance' = Append(req[p].att, req[p].rec)
    /\ req' = [q \in Procs |->
                  IF q = p THEN [req[p] EXCEPT !.pc = "logRead", !.wrote = TRUE]
                  ELSE [req[q] EXCEPT !.overlap = (req[q].pc = "write"),
                                      !.overwritten = @ \/ req[q].wrote]]
    /\ resp' = NoResp
    /\ UNCHANGED <<users, logs, clock, tokens, client, analyticsCache, call, superdb>>

\* Faulty variant of PostWriteFail: the failed write leaves the file truncated.
PostWriteFailTruncated(p) ==
    /\ req[p].pc = "write"
    /\ attendance' = <<>>
    /\ req' = [req EXCEPT ![p] = Idle]
    /\ resp' = Status("post", p, 500)
    /\ UNCHANGED <<users, logs, clock, tokens, client, analyticsCache, call, superdb>>

\* writeData throws: the catch block answers 500, logActivity is not reached.
PostWriteFail(p) ==
    /\ req[p].pc = "write"
    /\ req' = [req EXCEPT ![p] = Idle]
    /\ resp' = Status("post", p, 500)
    /\ UNCHANGED <<users, attendance, logs, clock, tokens, client, analyticsCache, call, superdb>>

(***************************************************************************)
(* logActivity, and the response that follows it.                          *)
(***************************************************************************)
LogType(r) == IF r.kind = "login" THEN "login" ELSE "attendance"
LogDescription(r) ==
    IF r.kind = "login" THEN <<"User", r.user.username, "logged in">>
    ELSE <<r.user.username, r.action>>

\* res.json({token, user}) of login, res.status(201).json(record) of attendance.
Respond(p) ==
    /\ req' = [req EXCEPT ![p] = Idle]
    /\ tokens' = IF req[p].kind = "login" THEN tokens \cup {req[p].user} ELSE tokens
    /\ resp' = IF req[p].kind = "post"
               THEN [Status("post", p, 201) EXCEPT !.rec = req[p].rec]
               ELSE Status("login", p, 200)

\* readData(LOGS_FILE) and the entry pushed when it returns.
LogRead(p) ==
    /\ req[p].pc = "logRead"
    /\ req' = [req EXCEPT ![p] =
                  [@ EXCEPT !.pc = "logWrite", !.lsnap = logs,
                            !.entry = LogEntry(LogType(req[p]), LogDescription(req[p]),
                                               req[p].user.id, clock)]]
    /\ resp' = NoResp
    /\ UNCHANGED <<users, attendance, logs, clock, tokens, client, analyticsCache, call, superdb>>

\* readData throws inside logActivity: it is caught there and the handler goes on.
LogReadFail(p) ==
    /\ req[p].pc = "logRead"
    /\ Respond(p)
    /\ UNCHANGED <<users, attendance, logs, clock, client, analyticsCache, call, superdb>>

\* writeData(LOGS_FILE, logs), then the handler's response.
LogWrite(p) ==
    /\ req[p].pc = "logWrite"
    /\ logs' = Append(req[p].lsnap, req[p].entry)
    /\ Respond(p)
    /\ UNCHANGED <<users, attendance, clock, client, analyticsCache, call, superdb>>

\* Faulty variant of LogWriteFail: logActivity does not catch the error,
\* and the catch block of the handler answers 500.
LogWriteFailUncaught(p) ==
    /\ req[p].pc = "logWrite"
    /\ req' = [req EXCEPT ![p] = Idle]
    /\ tokens' = tokens
    /\ resp' = Status(IF req[p].kind = "post" THEN "post" ELSE "login", p, 500)
    /\ UNCHANGED <<users, attendance, logs, clock, client, analyticsCache, call, superdb>>

\* writeData throws inside logActivity: caught there, the handler goes on.
LogWriteFail(p) ==
    /\ req[p].pc = "logWrite"
    /\ Respond(p)
    /\ UNCHANGED <<users, attendance, logs, clock, client, analyticsCache, call, superdb>>

(***************************************************************************)
(* POST /api/register.                                                     *)
(***************************************************************************)
\* users.find(u => u.username === username || u.email === email)
UserExists(us, input) ==
    \E i \in DOMAIN us : us[i].username = input.username \/ us[i].email = input.email

\* Math.max(...users.map(u => u.id), 0) + 1
NextUserId(us) == MaxOf({us[i].id : i \in DOMAIN us} \cup {0}) + 1

\* readData(USERS_FILE) and the duplicate check: 500 when the file cannot be
\* read, 400 when the user exists, else on to bcrypt.hash and the write.
RegRead(p, input, readOk) ==
    /\ req[p].pc = "idle"
    /\ Len(users) < MaxUsers
    /\ IF ~readOk
       THEN /\ req' = req
            /\ resp' = Status("register", p, 500)
       ELSE IF UserExists(users, input)
       THEN /\ req' = req
            /\ resp' = Status("register", p, 400)
       ELSE /\ req' = [req EXCEPT ![p] =
                          [Idle EXCEPT !.kind = "register", !.pc = "regWrite",
                                       !.usnap = users, !.input = input]]
            /\ resp' = NoResp
    /\ UNCHANGED <<users, attendance, logs, clock, tokens, client, analyticsCache, call, superdb>>

\* Faulty variant of RegWrite: the new user is added to the file as it is
\* when written, not as it was when read.
RegWriteAppend(p, writeOk) ==
    /\ req[p].pc = "regWrite"
    /\ IF writeOk
       THEN /\ users' = Append(users,
                               User(NextUserId(req[p].usnap), req[p].input.username,
                                    req[p].input.email, "secret1", "employee", FALSE, clock))
            /\ resp' = Status("register", p, 201)
       ELSE /\ users' = users
            /\ resp' = Status("register", p, 500)
    /\ req' = [req EXCEPT ![p] = Idle]
    /\ UNCHANGED <<attendance, logs, clock, tokens, client, analyticsCache, call, superdb>>

\* users.push(newUser); writeData(USERS_FILE, users); 201, or 500 when the
\* write throws.
RegWrite(p, writeOk) ==
    /\ req[p].pc = "regWrite"
    /\ IF writeOk
       THEN /\ users' = Append(req[p].usnap,
                               User(NextUserId(req[p].usnap), req[p].input.username,
                                    req[p].input.email, "secret1", "employee", FALSE, clock))
            /\ resp' = Status("register", p, 201)
       ELSE /\ users' = users
            /\ resp' = Status("register", p, 500)
    /\ req' = [req EXCEPT ![p] = Idle]
    /\ UNCHANGED <<attendance, logs, clock, tokens, client, analyticsCache, call, superdb>>

(***************************************************************************)
(* GET /api/attendance.                                                    *)
(***************************************************************************)
GetAttendance(readOk) ==
    /\ tokens # {}
    /\ resp' = IF readOk
               THEN [Status("get", 0, 200) EXCEPT
                        !.records = attendance,
                        !.afterPost = (resp.type = "post" /\ resp.status = 201),
                        !.afterRec = resp.rec]
               ELSE Status("get", 0, 500)
    /\ UNCHANGED <<users, attendance, logs, clock, tokens, req, client, analyticsCache, call, superdb>>

(***************************************************************************)
(* GET /api/reports/:type.                                                 *)
(***************************************************************************)
\* case 'daily': the records of today's calendar date.
DailyFilter(records, now) ==
    SelectSeq(records,
              LAMBDA r : ToDateString(ParseDate(r.timestamp)) = ToDateString(now))

\* Faulty variant of WeeklyFilter: the lower bound is exclusive.
WeeklyFilterExclusive(records, now) ==
    SelectSeq(records, LAMBDA r : ParseDate(r.timestamp) # NaN
                                  /\ ParseDate(r.timestamp) > now - WeekMs)

\* case 'weekly': new Date(r.timestamp) >= now - 7 * 24 * 60 * 60 * 1000
WeeklyFilter(records, now) ==
    SelectSeq(records, LAMBDA r : DateGE(ParseDate(r.timestamp), now - WeekMs))

\* case 'monthly': new Date(r.timestamp) >= now - 30 * 24 * 60 * 60 * 1000
MonthlyFilter(records, now) ==
    SelectSeq(records, LAMBDA r : DateGE(ParseDate(r.timestamp), now - MonthMs))

\* The types the switch has a case for; any other type is answered 400.
ServerTypes == {"daily", "weekly", "monthly"}

filteredRecords(type, records, now) ==
    CASE type = "daily" -> DailyFilter(records, now)
      [] type = "weekly" -> WeeklyFilter(records, now)
      [] type = "monthly" -> MonthlyFilter(records, now)
      [] OTHER -> <<>>

CountAction(records, action) ==
    Len(SelectSeq(records, LAMBDA r : r.action = action))

Report(type, records, now) ==
    LET f == filteredRecords(type, records, now)
    IN  [Status("report", 0, 200) EXCEPT
            !.rtype = type, !.totalRecords = Len(f),
            !.signIns = CountAction(f, "sign-in"),
            !.signOuts = CountAction(f, "sign-out"),
            !.records = f, !.now = now, !.ledger = records]

GetReport(type, readOk) ==
    /\ tokens # {}
    /\ resp' =
          IF ~readOk THEN Status("report", 0, 500)
          ELSE IF type \notin ServerTypes
          THEN [Status("report", 0, 400) EXCEPT !.rtype = type]
          ELSE Report(type, attendance, clock)
    /\ UNCHANGED <<users, attendance, logs, clock, tokens, req, client, analyticsCache, call, superdb>>

(***************************************************************************)
(* The ledger routes of the server, one request at a time: each request    *)
(* runs to its response before the next one starts.                        *)
(***************************************************************************)
Quiet == \A p \in Procs : req[p].pc = "idle"

Next ==
    \/ \E d \in TickSteps : Tick(d)
    \/ \E c \in LoginInputs, ok \in BOOLEAN : LoginStart(1, c[1], c[2], ok)
    \/ \E u \in tokens, a \in Actions : PostRead(1, u, a)
    \/ \E u \in tokens, a \in Actions : PostReadFail(1, u, a)
    \/ PostWrite(1)
    \/ PostWriteFail(1)
    \/ LogRead(1)
    \/ LogReadFail(1)
    \/ LogWrite(1)
    \/ LogWriteFail(1)
    \/ \E ok \in BOOLEAN : Quiet /\ GetAttendance(ok)
    \/ \E t \in ReportTypes, ok \in BOOLEAN : Quiet /\ GetReport(t, ok)

Spec == Init /\ [][Next]_vars

(***************************************************************************)
(* Every route of the server, one request at a time.                       *)
(***************************************************************************)
NextApi ==
    \/ Next
    \/ \E i \in RegisterInputs, ok \in BOOLEAN : RegRead(1, i, ok)
    \/ \E ok \in BOOLEAN : RegWrite(1, ok)

SpecApi == Init /\ [][NextApi]_vars

(***************************************************************************)
(* The server with two connections: their requests interleave at the       *)
(* awaits of the handlers.                                                 *)
(***************************************************************************)
NextOverlap ==
    \/ clock < DayMs /\ Tick(DayMs)
    \/ \E p \in Procs : LoginStart(p, "employee1", "emp123", TRUE)
    \/ \E p \in Procs, u \in tokens, a \in ValidActions : PostRead(p, u, a)
    \/ \E p \in Procs : PostWrite(p)
    \/ \E p \in Procs : PostWriteFail(p)
    \/ \E p \in Procs : LogRead(p)
    \/ \E p \in Procs : LogReadFail(p)
    \/ \E p \in Procs : LogWrite(p)
    \/ \E p \in Procs : LogWriteFail(p)

SpecOverlap == Init /\ [][NextOverlap]_vars

(***************************************************************************)
(* POST /api/register on two connections: the requests interleave at the   *)
(* awaits of the handler (the read of the users file, bcrypt.hash, the     *)
(* write).                                                                 *)
(***************************************************************************)
\* The registrations asked for: a new user, the same username with another
\* email, the same email with another username, and a username taken.
RegisterOverlapInputs ==
    RegisterInputs
        \cup { [username |-> "temp1", email |-> "temp1@company.com"],
               [username |-> "temp2", email |-> "temp@company.com"] }

NextRegister ==
    \/ clock < DayMs /\ Tick(DayMs)
    \/ \E p \in Procs, i \in RegisterOverlapInputs, ok \in BOOLEAN : RegRead(p, i, ok)
    \/ \E p \in Procs, ok \in BOOLEAN : RegWrite(p, ok)

SpecRegister == Init /\ [][NextRegister]_vars

(***************************************************************************)
(* The calendar of Date: local year, month (0..11) and day of the month,   *)
(* and MakeDay, by which setDate and setMonth carry a day or month out of  *)
(* range into the neighbouring months.                                     *)
(***************************************************************************)
\* The day of the year on which each month starts (years are not leap).
MonthStartDays == <<0, 31, 59, 90, 120, 151, 181, 212, 243, 273, 304, 334, 365>>

GetFullYear(t) == (t \div DayMs) \div MonthStartDays[13]
DayOfYear(t) == (t \div DayMs) % MonthStartDays[13]
GetMonth(t) ==
    CHOOSE m \in 0..11 :
        MonthStartDays[m + 1] <= DayOfYear(t) /\ DayOfYear(t) < MonthStartDays[m + 2]
GetDate(t) == DayOfYear(t) - MonthStartDays[GetMonth(t) + 1] + 1
TimeInDay(t) == t % DayMs

MakeDay(y, m, d) ==
    (y + (m \div 12)) * MonthStartDays[13] + MonthStartDays[(m % 12) + 1] + d - 1

SetDate(t, d) == MakeDay(GetFullYear(t), GetMonth(t), d) * DayMs + TimeInDay(t)
SetMonth(t, m) == MakeDay(GetFullYear(t), m, GetDate(t)) * DayMs + TimeInDay(t)

\* The instant of a local date and hour of the model's second year.
At(m, d, h) == MakeDay(1, m, d) * DayMs + h * HourMs

(***************************************************************************)
(* AdvancedReporting: the report generator of the browser.                 *)
(***************************************************************************)
\* The value of an empty date input, and of a missing option.
Empty == [iso |-> FALSE, ms |-> 0]
Undefined == "undefined"

\* dateRange: null, or {start, end}.
NoRange == [given |-> FALSE, start |-> Empty, end |-> Empty]
RangeOf(start, end) == [given |-> TRUE, start |-> start, end |-> end]

\* gatherReportData: the records of the system, filtered by dateRange when
\* one is given and by users when some are given; type only labels the result.
gatherReportData(type, dateRange, userNames, records, now) ==
    LET byDate ==
            IF dateRange.given
            THEN SelectSeq(records,
                           LAMBDA r : /\ DateGE(ParseDate(r.timestamp), ParseDate(dateRange.start))
                                      /\ DateLE(ParseDate(r.timestamp), ParseDate(dateRange.end)))
            ELSE records
        byUser ==
            IF userNames # {}
            THEN SelectSeq(byDate, LAMBDA r : r.username \in userNames)
            ELSE byDate
    IN  [op |-> "report", type |-> type, dateRange |-> dateRange, records |-> byUser,
         totalRecords |-> Len(byUser), generatedAt |-> ToISOString(now),
         source |-> records]

\* generateAdvancedReport(options): type defaults to 'daily'; the data
\* gathered is handed to the encoder of the format.
generateAdvancedReport(type, dateRange, userNames, records, now) ==
    gatherReportData(IF type = Undefined THEN "daily" ELSE type,
                     dateRange, userNames, records, now)

GenerateAdvancedReport(type, dateRange, userNames) ==
    /\ client' = generateAdvancedReport(type, dateRange, userNames, attendance, clock)
                     @@ [asked |-> type, start |-> dateRange.start, end |-> dateRange.end]
    /\ UNCHANGED <<users, attendance, logs, clock, tokens, req, resp, analyticsCache, call, superdb>>

\* The click handler of the generate-report button: a date range is passed
\* only for type 'custom' with both date inputs filled in.
ClickGenerateReport(type, startDate, endDate) ==
    /\ LET dateRange ==
               IF type = "custom" /\ startDate # Empty /\ endDate # Empty
               THEN RangeOf(startDate, endDate)
               ELSE NoRange
       IN  client' = generateAdvancedReport(type, dateRange, {}, attendance, clock)
                        @@ [asked |-> type, start |-> startDate, end |-> endDate]
    /\ UNCHANGED <<users, attendance, logs, clock, tokens, req, resp, analyticsCache, call, superdb>>

(***************************************************************************)
(* DashboardCharts and DashboardEnhancements: the windows of the dashboard.*)
(***************************************************************************)
Since(records, from) ==
    SelectSeq(records, LAMBDA r : DateGE(ParseDate(r.timestamp), from))

\* DashboardCharts.getDateRange(days): date.setDate(date.getDate() - days)
getDateRange(now, days) == SetDate(now, GetDate(now) - days)

(***************************************************************************)
(* Aggregation: the breakdowns, peak hours and anomalies computed from a   *)
(* collection of records by DashboardCharts, AdvancedReporting and         *)
(* SuperDatabase.                                                          *)
(***************************************************************************)
\* Date.prototype.getHours (NaN for Invalid Date).
GetHours(t) == IF t = NaN THEN NaN ELSE (t % DayMs) \div HourMs

\* An object used as a map: a function from its own keys to their values.
EmptyObject == [k \in {} |-> 0]
Put(obj, k, v) == [j \in DOMAIN obj \cup {k} |-> IF j = k THEN v ELSE obj[j]]

\* getHourlyBreakdown: records.forEach(record => { breakdown[hour] =
\* (breakdown[hour] || 0) + 1 }) over an object that starts empty.
getHourlyBreakdown(records) ==
    LET breakdown[i \in 0..Len(records)] ==
            IF i = 0 THEN EmptyObject
            ELSE LET obj == breakdown[i - 1]
                     hour == GetHours(ParseDate(records[i].timestamp))
                 IN  Put(obj, hour, (IF hour \in DOMAIN obj THEN obj[hour] ELSE 0) + 1)
    IN  breakdown[Len(records)]

\* breakdown[key][record.action === 'sign-in' ? 'signIns' : 'signOuts']++
CountByAction(obj, key, r) ==
    LET old == IF key \in DOMAIN obj THEN obj[key] ELSE [signIns |-> 0, signOuts |-> 0]
    IN  Put(obj, key,
            IF r.action = "sign-in"
            THEN [old EXCEPT !.signIns = @ + 1]
            ELSE [old EXCEPT !.signOuts = @ + 1])

getDailyBreakdown(records) ==
    LET breakdown[i \in 0..Len(records)] ==
            IF i = 0 THEN EmptyObject
            ELSE CountByAction(breakdown[i - 1],
                               ToDateString(ParseDate(records[i].timestamp)), records[i])
    IN  breakdown[Len(records)]

getUserBreakdown(records) ==
    LET breakdown[i \in 0..Len(records)] ==
            IF i = 0 THEN EmptyObject
            ELSE CountByAction(breakdown[i - 1], records[i].username, records[i])
    IN  breakdown[Len(records)]

\* Faulty variant of KeyBefore: the keys in descending order.
KeyBeforeDescending(a, b) == a # NaN /\ (b = NaN \/ a > b)

\* Object.entries of an object keyed by hour: the integer keys in ascending
\* order, then the key "NaN".
KeyBefore(a, b) == a # NaN /\ (b = NaN \/ a < b)

RECURSIVE OwnKeys(_)
OwnKeys(S) ==
    IF S = {} THEN <<>>
    ELSE LET k == CHOOSE k \in S : \A o \in S \ {k} : KeyBefore(k, o)
         IN  <<k>> \o OwnKeys(S \ {k})

ObjectEntries(obj) ==
    LET keys == OwnKeys(DOMAIN obj)
    IN  [i \in DOMAIN keys |-> <<keys[i], obj[keys[i]]>>]

\* Faulty variant of SortByCount: the comparator is a - b, counts ascending.
RECURSIVE SortByCountAscending(_)
SortByCountAscending(entries) ==
    IF entries = <<>> THEN <<>>
    ELSE LET rest == SortByCountAscending(SubSeq(entries, 1, Len(entries) - 1))
             e == entries[Len(entries)]
             k == Cardinality({i \in DOMAIN rest : rest[i][2] <= e[2]})
         IN  SubSeq(rest, 1, k) \o <<e>> \o SubSeq(rest, k + 1, Len(rest))

\* Array.prototype.sort(([,a], [,b]) => b - a): a stable sort, counts descending.
RECURSIVE SortByCount(_)
SortByCount(entries) ==
    IF entries = <<>> THEN <<>>
    ELSE LET rest == SortByCount(SubSeq(entries, 1, Len(entries) - 1))
             e == entries[Len(entries)]
             k == Cardinality({i \in DOMAIN rest : rest[i][2] >= e[2]})
         IN  SubSeq(rest, 1, k) \o <<e>> \o SubSeq(rest, k + 1, Len(rest))

\* Array.prototype.slice(0, n)
Slice(s, n) == SubSeq(s, 1, IF Len(s) < n THEN Len(s) ELSE n)

\* The n busiest hours of an hourly breakdown, as {hour, count}.
sortedHours(breakdown, n) ==
    LET top == Slice(SortByCount(ObjectEntries(breakdown)), n)
    IN  [i \in DOMAIN top |-> [hour |-> top[i][1], count |-> top[i][2]]]

\* SuperDatabase.calculatePeakHours: the five busiest hours.
calculatePeakHours(records) == sortedHours(getHourlyBreakdown(records), 5)

\* SuperDatabase.calculateUserActivity
calculateUserActivity(records) == getUserBreakdown(records)

\* [...new Set(records.map(r => r.username))].length
UniqueUsers(records) == Cardinality({records[i].username : i \in DOMAIN records})

\* SuperDatabase.calculateDailyAverage: Math.round(totalRecords / days), with
\* halves rounded up.
calculateDailyAverage(records) ==
    LET days == Cardinality({ToDateString(ParseDate(records[i].timestamp)) : i \in DOMAIN records})
    IN  IF days > 0 THEN (2 * Len(records) + days) \div (2 * days) ELSE 0

\* Faulty variant of detectAnomalies, with the threshold 2 of
\* AttendanceAnalytics.detectAnomalies: the sign-ins whose hour is more than 2
\* from the mean hour of the sign-ins (hour - sum / n, compared exactly as
\* hour * n - sum); a NaN hour makes the mean NaN and every comparison with
\* it false.  The message of an anomaly is a text of its hour and the mean.
detectAnomaliesThreshold2(records) ==
    LET signIns == SelectSeq(records, LAMBDA r : r.action = "sign-in")
        signInHours == [i \in DOMAIN signIns |-> GetHours(ParseDate(signIns[i].timestamp))]
        isNaN == \E i \in DOMAIN signInHours : signInHours[i] = NaN
        Sum[i \in 0..Len(signInHours)] == IF i = 0 THEN 0 ELSE Sum[i - 1] + signInHours[i]
        total == Sum[Len(signInHours)]
        n == Len(signInHours)
        Far(hour) == \/ (hour * n - total) > 2 * n
                     \/ (total - hour * n) > 2 * n
        flagged == SelectSeq(signIns,
                             LAMBDA r : ~isNaN /\ Far(GetHours(ParseDate(r.timestamp))))
    IN  [i \in DOMAIN flagged |->
            [type |-> "unusual_time", record |-> flagged[i],
             hour |-> GetHours(ParseDate(flagged[i].timestamp))]]

\* SuperDatabase.detectAnomalies: the sign-ins whose hour is more than 3
\* from the mean hour of the sign-ins (hour - sum / n, compared exactly as
\* hour * n - sum); a NaN hour makes the mean NaN and every comparison with
\* it false.  The message of an anomaly is a text of its hour and the mean.
detectAnomalies(records) ==
    LET signIns == SelectSeq(records, LAMBDA r : r.action = "sign-in")
        signInHours == [i \in DOMAIN signIns |-> GetHours(ParseDate(signIns[i].timestamp))]
        isNaN == \E i \in DOMAIN signInHours : signInHours[i] = NaN
        Sum[i \in 0..Len(signInHours)] == IF i = 0 THEN 0 ELSE Sum[i - 1] + signInHours[i]
        total == Sum[Len(signInHours)]
        n == Len(signInHours)
        Far(hour) == \/ (hour * n - total) > 3 * n
                     \/ (total - hour * n) > 3 * n
        flagged == SelectSeq(signIns,
                             LAMBDA r : ~isNaN /\ Far(GetHours(ParseDate(r.timestamp))))
    IN  [i \in DOMAIN flagged |->
            [type |-> "unusual_time", record |-> flagged[i],
             hour |-> GetHours(ParseDate(flagged[i].timestamp))]]

\* Faulty variant of filterRecordsByDateRange: the scan starts at the second
\* record.
filterRecordsByDateRangeFromSecond(records, dateRange) ==
    IF ~dateRange.given THEN records
    ELSE SelectSeq(IF records = <<>> THEN <<>> ELSE Tail(records),
                   LAMBDA r : /\ DateGE(ParseDate(r.timestamp), ParseDate(dateRange.start))
                              /\ DateLE(ParseDate(r.timestamp), ParseDate(dateRange.end)))

\* SuperDatabase.filterRecordsByDateRange: all the records without a range.
filterRecordsByDateRange(records, dateRange) ==
    IF ~dateRange.given THEN records
    ELSE SelectSeq(records,
                   LAMBDA r : /\ DateGE(ParseDate(r.timestamp), ParseDate(dateRange.start))
                              /\ DateLE(ParseDate(r.timestamp), ParseDate(dateRange.end)))

\* SuperDatabase.getAttendanceAnalytics over the records read from the file.
getAttendanceAnalytics(records, options) ==
    LET f == filterRecordsByDateRange(records, options.dateRange)
    IN  [totalRecords |-> Len(f),
         uniqueUsers |-> UniqueUsers(f),
         signInCount |-> CountAction(f, "sign-in"),
         signOutCount |-> CountAction(f, "sign-out"),
         dailyAverage |-> calculateDailyAverage(f),
         peakHours |-> calculatePeakHours(f),
         userActivity |-> calculateUserActivity(f),
         anomalies |-> detectAnomalies(f)]

\* AdvancedReporting.calculateAnalytics: the three breakdowns and the three
\* busiest hours.
calculateAnalytics(records) ==
    LET hourly == getHourlyBreakdown(records)
        byUser == getUserBreakdown(records)
    IN  [totalSignIns |-> CountAction(records, "sign-in"),
         totalSignOuts |-> CountAction(records, "sign-out"),
         uniqueUsers |-> UniqueUsers(records),
         dailyBreakdown |-> getDailyBreakdown(records),
         hourlyBreakdown |-> hourly,
         userBreakdown |->
             [u \in DOMAIN byUser |->
                 [signIns |-> byUser[u].signIns, signOuts |-> byUser[u].signOuts,
                  totalHours |-> 0]],
         peakHours |-> sortedHours(hourly, 3)]

\* DashboardCharts.gatherDashboardData: the windows and the breakdowns.
gatherDashboardData(records, now) ==
    [allRecords |-> records,
     todayRecords |-> DailyFilter(records, now),
     weekRecords |-> Since(records, getDateRange(now, 7)),
     monthRecords |-> Since(records, getDateRange(now, 30)),
     hourlyBreakdown |-> getHourlyBreakdown(records),
     dailyBreakdown |-> getDailyBreakdown(records),
     userBreakdown |-> getUserBreakdown(records)]

\* DashboardCharts.createPeakHoursChart: the eight busiest hours.
createPeakHoursChart(data) == sortedHours(data.hourlyBreakdown, 8)

\* DashboardCharts.gatherDashboardData over the records of the system.
GatherDashboardData ==
    /\ client' = [op |-> "dashboard", now |-> clock] @@ gatherDashboardData(attendance, clock)
    /\ UNCHANGED <<users, attendance, logs, clock, tokens, req, resp, analyticsCache, call, superdb>>

\* DashboardEnhancements.getWeekRecords: weekAgo.setDate(weekAgo.getDate() - 7)
getWeekRecords(records, now) == Since(records, SetDate(now, GetDate(now) - 7))

\* DashboardEnhancements.getMonthRecords: monthAgo.setMonth(monthAgo.getMonth() - 1)
getMonthRecords(records, now) == Since(records, SetMonth(now, GetMonth(now) - 1))

\* DashboardEnhancements.updateAdvancedStats
UpdateAdvancedStats ==
    /\ client' =
          [op |-> "stats", now |-> clock, allRecords |-> attendance,
           thisWeek |-> getWeekRecords(attendance, clock),
           thisMonth |-> getMonthRecords(attendance, clock)]
    /\ UNCHANGED <<users, attendance, logs, clock, tokens, req, resp, analyticsCache, call, superdb>>

(***************************************************************************)
(* The browser helpers over a collection of records and a clock.           *)
(***************************************************************************)
NowSet == { At(2, 31, 12), At(2, 1, 12), At(6, 15, 12), At(0, 15, 12) }
AgeDays == {0, 7, 8, 30, 31}
ClientUsers == { Token(defaultUsers[2]), Token(defaultUsers[3]) }

RecordsAt(now) ==
    { Record(u, a, now - d * DayMs) : u \in ClientUsers, a \in ValidActions, d \in AgeDays }

\* The collections of at most MaxRecords records, oldest first.
LedgersAt(now) ==
    UNION { { s \in [1..n -> RecordsAt(now)] :
                \A i \in 1..(n - 1) : s[i].id <= s[i + 1].id } : n \in 0..MaxRecords }

ClientTypes == {"daily", "weekly", "monthly", "custom"}
AskedTypes == ClientTypes \cup {"yearly", Undefined}
DateInputs(now) == { Empty, ToISOString(now - 8 * DayMs), ToISOString(now) }
DateRanges(now) ==
    { NoRange } \cup { RangeOf(a, b) : a \in DateInputs(now), b \in DateInputs(now) }

InitClient ==
    /\ users = defaultUsers
    /\ logs = <<>>
    /\ tokens = {}
    /\ req = [p \in Procs |-> Idle]
    /\ resp = NoResp
    /\ client = NoClient
    /\ analyticsCache = NewMap
    /\ call = [c \in Procs |-> NoCall]
    /\ InitSuperDb
    /\ clock \in NowSet
    /\ attendance \in LedgersAt(clock)

\* Each helper is a function of the records and the clock alone: it is
\* applied once to every collection and clock drawn.
Fresh == client = NoClient

NextClient ==
    \/ \E t \in AskedTypes, r \in DateRanges(clock), u \in {{}, {"employee1"}} :
          Fresh /\ GenerateAdvancedReport(t, r, u)
    \/ \E t \in ClientTypes, a \in DateInputs(clock), b \in DateInputs(clock) :
          Fresh /\ ClickGenerateReport(t, a, b)
    \/ Fresh /\ GatherDashboardData
    \/ Fresh /\ UpdateAdvancedStats

SpecClient == InitClient /\ [][NextClient]_vars

(***************************************************************************)
(* The aggregation helpers applied to a collection of records.             *)
(***************************************************************************)
\* AdvancedReporting.calculateAnalytics(records)
CalculateAnalytics(op, records) ==
    /\ client' = [op |-> op, input |-> records, now |-> clock]
                    @@ calculateAnalytics(records)
    /\ UNCHANGED <<users, attendance, logs, clock, tokens, req, resp, analyticsCache, call, superdb>>

\* DashboardCharts.initializeCharts: the data gathered, and the chart of
\* the peak hours made from it.
InitializeCharts(op, records) ==
    /\ LET data == gatherDashboardData(records, clock)
       IN  client' = [op |-> op, input |-> records, now |-> clock,
                      peakHours |-> createPeakHoursChart(data)] @@ data
    /\ UNCHANGED <<users, attendance, logs, clock, tokens, req, resp, analyticsCache, call, superdb>>

\* SuperDatabase.getAttendanceAnalytics(options)
GetAttendanceAnalytics(options) ==
    /\ client' = [op |-> "attendanceAnalytics", input |-> attendance, now |-> clock,
                  options |-> options,
                  filtered |-> filterRecordsByDateRange(attendance, options.dateRange)]
                    @@ getAttendanceAnalytics(attendance, options)
    /\ UNCHANGED <<users, attendance, logs, clock, tokens, req, resp, analyticsCache, call, superdb>>

\* The window of GET /api/reports/:type applied to the records, and again
\* to its own result.
FilterTwice(type) ==
    /\ client' = [op |-> "window", type |-> type, input |-> attendance, now |-> clock,
                  once |-> filteredRecords(type, attendance, clock),
                  twice |-> filteredRecords(type, filteredRecords(type, attendance, clock),
                                            clock)]
    /\ UNCHANGED <<users, attendance, logs, clock, tokens, req, resp, analyticsCache, call, superdb>>

\* filterRecordsByDateRange applied to the records, and again to its own result.
FilterByDateRangeTwice(dateRange) ==
    /\ client' = [op |-> "window", type |-> "custom", input |-> attendance, now |-> clock,
                  dateRange |-> dateRange,
                  once |-> filterRecordsByDateRange(attendance, dateRange),
                  twice |-> filterRecordsByDateRange(
                                filterRecordsByDateRange(attendance, dateRange), dateRange)]
    /\ UNCHANGED <<users, attendance, logs, clock, tokens, req, resp, analyticsCache, call, superdb>>

(***************************************************************************)
(* The collections the aggregation helpers are applied to.                 *)
(***************************************************************************)
AnalyticsNow == At(2, 31, 12)

\* The instant of hour h, d days before AnalyticsNow's day.
HourAgo(d, h) == AnalyticsNow - d * DayMs - 12 * HourMs + h * HourMs

AnalyticsTimes == { HourAgo(31, 9), HourAgo(8, 2), HourAgo(0, 9) }

\* employee1, and employee1 under a second username.
Renamed == [id |-> 3, username |-> "emp.one", role |-> "employee"]
AnalyticsUsers == { Token(defaultUsers[3]), Renamed }

AnalyticsRecords ==
    { Record(u, a, t) : u \in AnalyticsUsers, a \in Actions, t \in AnalyticsTimes }

\* The collections of at most MaxEvents records, oldest first.
SmallLedgers ==
    UNION { { s \in [1..n -> AnalyticsRecords] :
                \A i \in 1..(n - 1) : s[i].id <= s[i + 1].id } : n \in 0..MaxEvents }

\* Collections of sign-ins of employee1 at nine hours of the day, each hour
\* once or twice: all on one day with the hours ascending, or on successive
\* days with the hours descending.
PeakHourSet == <<2, 7, 8, 9, 10, 11, 13, 17, 22>>
PerHour == {1, 2}

RECURSIVE Repeat(_, _)
Repeat(x, n) == IF n = 0 THEN <<>> ELSE <<x>> \o Repeat(x, n - 1)

RECURSIVE Flatten(_)
Flatten(ss) == IF ss = <<>> THEN <<>> ELSE Head(ss) \o Flatten(Tail(ss))

PeakLedger(counts, ascending) ==
    LET k == Len(PeakHourSet)
        At1(i) == IF ascending THEN HourAgo(1, PeakHourSet[i])
                  ELSE HourAgo(i, PeakHourSet[i])
        block(i) == Repeat(Record(Token(defaultUsers[3]), "sign-in", At1(i)), counts[i])
    IN  IF ascending
        THEN Flatten([i \in 1..k |-> block(i)])
        ELSE Flatten([i \in 1..k |-> block(k + 1 - i)])

PeakLedgers ==
    { PeakLedger(c, a) : c \in [1..Len(PeakHourSet) -> PerHour], a \in BOOLEAN }

\* The sign-ins at hours 9, 9, 9, 9 and 2 of five successive days.
ScenarioLedger ==
    [i \in 1..5 |-> Record(Token(defaultUsers[3]), "sign-in",
                           HourAgo(6 - i, IF i = 5 THEN 2 ELSE 9))]

\* A record whose timestamp is no date.
Malformed(u, a) ==
    [id |-> 0, userId |-> u.id, username |-> u.username, action |-> a,
     timestamp |-> Empty, location |-> "Office"]

InsertAt(s, i, x) == SubSeq(s, 1, i) \o <<x>> \o SubSeq(s, i + 1, Len(s))

\* The collection with one malformed record put in at any place.
Injected(records) ==
    { InsertAt(records, i, Malformed(u, a)) :
        i \in 0..Len(records), u \in {Token(defaultUsers[3])}, a \in {"sign-in"} }

AnalyticsRanges ==
    { NoRange,
      RangeOf(ToISOString(HourAgo(8, 2)), ToISOString(HourAgo(0, 9))),
      RangeOf(ToISOString(HourAgo(0, 9)), ToISOString(HourAgo(8, 2))),
      RangeOf(Empty, ToISOString(AnalyticsNow)) }

InitAnalytics ==
    /\ users = defaultUsers
    /\ logs = <<>>
    /\ tokens = {}
    /\ req = [p \in Procs |-> Idle]
    /\ resp = NoResp
    /\ client = NoClient
    /\ analyticsCache = NewMap
    /\ call = [c \in Procs |-> NoCall]
    /\ InitSuperDb
    /\ clock = AnalyticsNow
    /\ attendance \in SmallLedgers \cup PeakLedgers \cup {ScenarioLedger}

NextAnalytics ==
    \/ Fresh /\ CalculateAnalytics("analytics", attendance)
    \/ \E r \in Injected(attendance) : Fresh /\ CalculateAnalytics("analyticsInjected", r)
    \/ Fresh /\ InitializeCharts("charts", attendance)
    \/ \E r \in Injected(attendance) : Fresh /\ InitializeCharts("chartsInjected", r)
    \/ \E d \in AnalyticsRanges : Fresh /\ GetAttendanceAnalytics([dateRange |-> d])
    \/ \E t \in ServerTypes : Fresh /\ FilterTwice(t)
    \/ \E d \in AnalyticsRanges : Fresh /\ FilterByDateRangeTwice(d)

SpecAnalytics == InitAnalytics /\ [][NextAnalytics]_vars

(***************************************************************************)
(* SuperDatabase.getDataAnalytics: analytics cached by (type, options).    *)
(* A call runs in steps, at its awaits: the look-up in the cache, the read *)
(* of the attendance file, and the computation and storing of the          *)
(* analytics when the read is back.  Meanwhile the clock advances and the  *)
(* server appends to the file.                                             *)
(***************************************************************************)
\* this.cacheExpiry = 300000: five minutes.
cacheExpiry == 5 * MinuteMs

\* `${type}-${JSON.stringify(options)}`
CacheKey(type, options) == <<type, options>>

\* A cache entry {data, timestamp}; readAt notes when the records the data
\* were computed from were read.
CacheEntry(data, now, readAt) == [data |-> data, timestamp |-> now, readAt |-> readAt]

\* What a call gives back: the analytics, or the error it throws.  hit: the
\* analytics came from the cache; calledAt, readAt: when the call was made
\* and when the records behind the analytics were read.
Returned(c, type, options, data, readAt, hit) ==
    [op |-> "getDataAnalytics", type |-> type, options |-> options, outcome |-> "data",
     error |-> "", data |-> data, hit |-> hit, readAt |-> readAt,
     calledAt |-> IF hit THEN clock ELSE call[c].calledAt]
Thrown(type, options, error) ==
    [op |-> "getDataAnalytics", type |-> type, options |-> options, outcome |-> "error",
     error |-> error, data |-> <<>>, hit |-> FALSE, readAt |-> 0, calledAt |-> clock]

\* The types whose case calls a method SuperDatabase has, and those whose
\* case calls a method it has not (getUserAnalytics, getProductivityAnalytics,
\* getTrendAnalytics): the call throws a TypeError.
Implemented == {"attendance"}
NotImplemented == {"users", "productivity", "trends"}

Fresher(cached, now) == now - cached.timestamp < cacheExpiry

\* Faulty variant of GetDataAnalytics: the switch has no default case, and
\* the analytics of an unknown type, undefined, are stored and returned.
GetDataAnalyticsNoDefault(c, type, options) ==
    /\ call[c].pc = "idle"
    /\ LET key == CacheKey(type, options)
           hit == key \in DOMAIN analyticsCache /\ Fresher(analyticsCache[key], clock)
       IN  /\ client' =
                 IF hit
                 THEN Returned(c, type, options, analyticsCache[key].data,
                               analyticsCache[key].readAt, TRUE)
                 ELSE IF type \in Implemented THEN NoClient
                 ELSE IF type \in NotImplemented
                 THEN Thrown(type, options, "TypeError")
                 ELSE Returned(c, type, options, <<>>, clock, FALSE)
           /\ call' =
                 IF ~hit /\ type \in Implemented
                 THEN [call EXCEPT ![c] = [NoCall EXCEPT !.pc = "read", !.type = type,
                                                         !.options = options,
                                                         !.calledAt = clock]]
                 ELSE call
    /\ analyticsCache' =
          IF type \in Implemented \cup NotImplemented
             \/ (CacheKey(type, options) \in DOMAIN analyticsCache
                 /\ Fresher(analyticsCache[CacheKey(type, options)], clock))
          THEN analyticsCache
          ELSE Put(analyticsCache, CacheKey(type, options), CacheEntry(<<>>, clock, clock))
    /\ UNCHANGED <<users, attendance, logs, clock, tokens, req, resp, superdb>>

\* getDataAnalytics(type, options) up to its first await.
GetDataAnalytics(c, type, options) ==
    /\ call[c].pc = "idle"
    /\ LET key == CacheKey(type, options)
           hit == key \in DOMAIN analyticsCache /\ Fresher(analyticsCache[key], clock)
       IN  /\ client' =
                 IF hit
                 THEN Returned(c, type, options, analyticsCache[key].data,
                               analyticsCache[key].readAt, TRUE)
                 ELSE IF type \in Implemented THEN NoClient
                 ELSE IF type \in NotImplemented
                 THEN Thrown(type, options, "TypeError")
                 ELSE Thrown(type, options, "Unknown analytics type")
           /\ call' =
                 IF ~hit /\ type \in Implemented
                 THEN [call EXCEPT ![c] = [NoCall EXCEPT !.pc = "read", !.type = type,
                                                         !.options = options,
                                                         !.calledAt = clock]]
                 ELSE call
    /\ UNCHANGED <<users, attendance, logs, clock, tokens, req, resp, analyticsCache, superdb>>

\* readData('attendance'): the file is read.
AnalyticsRead(c) ==
    /\ call[c].pc = "read"
    /\ call' = [call EXCEPT ![c].pc = "store", ![c].records = attendance,
                            ![c].readAt = clock]
    /\ client' = NoClient
    /\ UNCHANGED <<users, attendance, logs, clock, tokens, req, resp, analyticsCache, superdb>>

\* readData('attendance') throws: the call throws, nothing is stored.
AnalyticsReadFail(c) ==
    /\ call[c].pc = "read"
    /\ call' = [call EXCEPT ![c] = NoCall]
    /\ client' = Thrown(call[c].type, call[c].options, "StorageUnavailable")
    /\ UNCHANGED <<users, attendance, logs, clock, tokens, req, resp, analyticsCache, superdb>>

\* The read is back: the analytics are computed from the records read,
\* stored with the time of now, and returned.
AnalyticsStore(c) ==
    /\ call[c].pc = "store"
    /\ LET data == getAttendanceAnalytics(call[c].records, call[c].options)
       IN  /\ analyticsCache' =
                 Put(analyticsCache, CacheKey(call[c].type, call[c].options),
                     CacheEntry(data, clock, call[c].readAt))
           /\ client' = Returned(c, call[c].type, call[c].options, data, call[c].readAt,
                                 FALSE)
    /\ call' = [call EXCEPT ![c] = NoCall]
    /\ UNCHANGED <<users, attendance, logs, clock, tokens, req, resp, superdb>>

\* The server appends a record to the attendance file (the push and write
\* of POST /api/attendance).
LedgerAppend(user, action) ==
    /\ Len(attendance) < MaxLedger
    /\ attendance' = Append(attendance, Record(user, action, clock))
    /\ client' = NoClient
    /\ UNCHANGED <<users, logs, clock, tokens, req, resp, analyticsCache, call, superdb>>

\* Time passes.
CacheTick(d) ==
    /\ clock + d <= MaxCacheClock
    /\ clock' = clock + d
    /\ client' = NoClient
    /\ UNCHANGED <<users, attendance, logs, tokens, req, resp, analyticsCache, call, superdb>>

CacheTickSteps == {2 * MinuteMs, 4 * MinuteMs}
AnalyticsTypes == Implemented \cup NotImplemented \cup {"yearly"}
AnalyticsOptions ==
    { [dateRange |-> NoRange],
      [dateRange |-> RangeOf(ToISOString(0), ToISOString(2 * MinuteMs))] }

\* The calls of one caller, each run to its end before the next.
NextCache ==
    \/ \E d \in CacheTickSteps : CacheTick(d)
    \/ LedgerAppend(Token(defaultUsers[3]), "sign-in")
    \/ \E t \in AnalyticsTypes, o \in AnalyticsOptions : GetDataAnalytics(1, t, o)
    \/ AnalyticsRead(1)
    \/ AnalyticsReadFail(1)
    \/ AnalyticsStore(1)

SpecCache == Init /\ [][NextCache]_vars

\* Two callers ask for the attendance analytics: their calls interleave at
\* the awaits, with the appends of the server and with the clock.
NextCacheOverlap ==
    \/ CacheTick(2 * MinuteMs)
    \/ LedgerAppend(Token(defaultUsers[3]), "sign-in")
    \/ \E c \in Procs : GetDataAnalytics(c, "attendance", [dateRange |-> NoRange])
    \/ \E c \in Procs : AnalyticsRead(c)
    \/ \E c \in Procs : AnalyticsReadFail(c)
    \/ \E c \in Procs : AnalyticsStore(c)

SpecCacheOverlap == Init /\ [][NextCacheOverlap]_vars

(***************************************************************************)
(* DashboardCharts: the scores shown with the charts.                      *)
(***************************************************************************)
MathMin(a, b) == IF a <= b THEN a ELSE b

\* Math.round of the quotient num / den (den > 0): halves go up.
MathRound(num, den) == (2 * num + den) \div (2 * den)

\* Faulty variant of calculateProductivityScore: the bonus is not capped.
calculateProductivityScoreUncapped(data) ==
    LET baseScore == 75
        activityBonus == Len(data.todayRecords) * 2
    IN  baseScore + activityBonus

\* calculateProductivityScore(data)
calculateProductivityScore(data) ==
    LET baseScore == 75
        activityBonus == MathMin(Len(data.todayRecords) * 2, 25)
    IN  MathMin(baseScore + activityBonus, 100)

\* calculateConsistencyScore(data), called at now: the records since
\* getDateRange(7), and the number of distinct toDateString() among them.
calculateConsistencyScore(data, now) ==
    LET last7Days == getDateRange(now, 7)
        recentRecords == Since(data.allRecords, last7Days)
        daysWithActivity ==
            Cardinality({ToDateString(ParseDate(recentRecords[i].timestamp)) :
                            i \in DOMAIN recentRecords})
    IN  MathRound(daysWithActivity * 100, 7)

\* updateKPIs(data), after gatherDashboardData: the productivity score.
UpdateKPIs ==
    /\ LET data == gatherDashboardData(attendance, clock)
       IN  client' = [op |-> "kpis", input |-> attendance, now |-> clock,
                      todayRecords |-> data.todayRecords,
                      productivityScore |-> calculateProductivityScore(data)]
    /\ UNCHANGED <<users, attendance, logs, clock, tokens, req, resp, analyticsCache, call, superdb>>

\* generateAIInsights(data), after gatherDashboardData: the consistency score.
GenerateAIInsights ==
    /\ LET data == gatherDashboardData(attendance, clock)
       IN  client' = [op |-> "insights", input |-> attendance, now |-> clock,
                      consistencyScore |-> calculateConsistencyScore(data, clock)]
    /\ UNCHANGED <<users, attendance, logs, clock, tokens, req, resp, analyticsCache, call, superdb>>

\* The collections the scores are computed from: up to MaxToday events of
\* today, a minute apart; and one event on each of some of the days from
\* today back to MaxScoreDays days ago, all in the morning or all in the
\* afternoon (now is noon), with or without one record that has no date.
TodayLedger(n) ==
    [i \in 1..n |-> Record(Token(defaultUsers[3]),
                           IF i % 2 = 1 THEN "sign-in" ELSE "sign-out",
                           HourAgo(0, 9) + i * MinuteMs)]

DaysLedger(days, hour) ==
    LET RECURSIVE Oldest(_, _)
        Oldest(d, acc) ==
            IF d < 0 THEN acc
            ELSE Oldest(d - 1,
                        IF d \in days
                        THEN acc \o <<Record(Token(defaultUsers[3]), "sign-in",
                                             HourAgo(d, hour))>>
                        ELSE acc)
    IN  Oldest(MaxScoreDays, <<>>)

ScoreLedgers ==
    { TodayLedger(n) : n \in 0..MaxToday }
        \cup { DaysLedger(S, h) : S \in SUBSET (0..MaxScoreDays), h \in {9, 13} }

InitScores ==
    /\ users = defaultUsers
    /\ logs = <<>>
    /\ tokens = {}
    /\ req = [p \in Procs |-> Idle]
    /\ resp = NoResp
    /\ client = NoClient
    /\ analyticsCache = NewMap
    /\ call = [c \in Procs |-> NoCall]
    /\ InitSuperDb
    /\ clock = AnalyticsNow
    /\ attendance \in ScoreLedgers \cup UNION { Injected(l) : l \in ScoreLedgers }

NextScores ==
    \/ Fresh /\ UpdateKPIs
    \/ Fresh /\ GenerateAIInsights

SpecScores == InitScores /\ [][NextScores]_vars

(***************************************************************************)
(* SuperDatabase: rate limiting of the attempts on a key.                  *)
(***************************************************************************)
\* securityConfig: maxLoginAttempts: 5, lockoutDuration: 900000 (15 minutes)
maxLoginAttempts == 5
lockoutDuration == 15 * MinuteMs

\* `${identifier}-${action}`
RateKey(identifier, action) == <<identifier, "-", action>>

\* this.loginAttempts.get(key) || { count: 0, lastAttempt: 0 }
NoAttempts == [count |-> 0, lastAttempt |-> 0]
AttemptsOf(key) == IF key \in DOMAIN loginAttempts THEN loginAttempts[key] ELSE NoAttempts

Remove(map, key) == [k \in DOMAIN map \ {key} |-> map[k]]

\* checkRateLimit(identifier, action): the counter of the record is reset,
\* in the record the map holds, when more than lockoutDuration has passed
\* since the last attempt; the key is refused while its counter is at the
\* maximum and time is left of the lockout.
CheckRateLimit(identifier, action) ==
    /\ LET key == RateKey(identifier, action)
           attempts == AttemptsOf(key)
           now == clock
           expired == now - attempts.lastAttempt > lockoutDuration
           count == IF expired THEN 0 ELSE attempts.count
           timeLeft == lockoutDuration - (now - attempts.lastAttempt)
       IN  /\ loginAttempts' =
                 IF key \in DOMAIN loginAttempts /\ expired
                 THEN [loginAttempts EXCEPT ![key].count = 0]
                 ELSE loginAttempts
           /\ client' = [op |-> "checkRateLimit", key |-> key, now |-> now,
                         allowed |-> ~(count >= maxLoginAttempts /\ timeLeft > 0)]
    /\ UNCHANGED <<users, attendance, logs, clock, tokens, req, resp, analyticsCache, call,
                   failures, tasks, devices, operation_logs, backups>>

\* The attempt that checkRateLimit has just allowed is made, and
\* recordLoginAttempt(identifier, action, success) records its outcome: a
\* success deletes the record of the key, a failure counts and is dated.
\* (failures: the failures of the key since its last success or since its
\* last lockout expired.)
RecordLoginAttempt(identifier, action, success) ==
    /\ client.op = "checkRateLimit"
    /\ client.key = RateKey(identifier, action)
    /\ client.allowed
    /\ LET key == RateKey(identifier, action)
           attempts == AttemptsOf(key)
           sofar == IF key \in DOMAIN failures THEN failures[key].count ELSE 0
       IN  /\ success \/ attempts.count < MaxFailed
           /\ loginAttempts' =
                 IF success THEN Remove(loginAttempts, key)
                 ELSE Put(loginAttempts, key,
                          [count |-> attempts.count + 1, lastAttempt |-> clock])
           /\ failures' =
                 IF success THEN Remove(failures, key)
                 ELSE Put(failures, key, [count |-> sofar + 1, last |-> clock])
           /\ client' = [op |-> "recordLoginAttempt", key |-> key, now |-> clock,
                         success |-> success]
    /\ UNCHANGED <<users, attendance, logs, clock, tokens, req, resp, analyticsCache, call,
                   tasks, devices, operation_logs, backups>>

\* Time passes: the lockout of a key with maxLoginAttempts failures or more
\* expires when its latest failure is lockoutDuration old, and its failures
\* are counted anew.
SecurityTick(d) ==
    /\ clock + d <= MaxSecurityClock
    /\ clock' = clock + d
    /\ failures' = [k \in DOMAIN failures |->
                       IF /\ failures[k].count >= maxLoginAttempts
                          /\ clock + d - failures[k].last >= lockoutDuration
                       THEN [failures[k] EXCEPT !.count = 0]
                       ELSE failures[k]]
    /\ client' = NoClient
    /\ UNCHANGED <<users, attendance, logs, tokens, req, resp, analyticsCache, call,
                   loginAttempts, tasks, devices, operation_logs, backups>>

SecurityTickSteps == {5 * MinuteMs, 15 * MinuteMs}
Identifiers == {"employee1", "admin"}

NextSecurity ==
    \/ \E d \in SecurityTickSteps : SecurityTick(d)
    \/ \E i \in Identifiers : CheckRateLimit(i, "login")
    \/ \E i \in Identifiers, ok \in BOOLEAN : RecordLoginAttempt(i, "login", ok)

SpecSecurity == Init /\ [][NextSecurity]_vars

(***************************************************************************)
(* SuperDatabase: backups.  A backup file holds a copy of the five         *)
(* collections and the checksum of the copy; the directory keeps the       *)
(* newest maxBackups files.                                                *)
(***************************************************************************)
\* backupConfig: interval: 3600000 (one hour), maxBackups: 24
interval == 60 * MinuteMs
maxBackups == 24

\* `backup-${timestamp}.json`, timestamp being toISOString() with its colons
\* and dot replaced: names of one width, whose order as strings is the order
\* of their instants.
BackupFilename(now) == [prefix |-> "backup-", stamp |-> now, suffix |-> ".json"]

\* calculateChecksum(JSON.stringify(data)): the SHA-256 digest of the text.
calculateChecksum(data) == <<"sha256", data>>

\* Object.values(data).reduce(...): the records of all the collections.
TotalRecords(data) ==
    Len(data.users) + Len(data.attendance) + Len(data.tasks) + Len(data.devices)
        + Len(data.logs)

\* The backupData createBackup writes (dataSize, the length of the text of
\* the data, is left out).
BackupData(now, data) ==
    [timestamp |-> now, version |-> "1.0.0", data |-> data,
     metadata |-> [totalRecords |-> TotalRecords(data),
                   checksum |-> calculateChecksum(data)]]

\* The collections as readData reads them.
ReadAll ==
    [users |-> users, attendance |-> attendance, tasks |-> tasks, devices |-> devices,
     logs |-> logs]

\* cleanOldBackups: files.filter(...).sort().reverse(), as the set of the
\* backup files and the number of files that sort after each.
BackupFiles(dir) ==
    {f \in DOMAIN dir : f.prefix = "backup-" /\ f.suffix = ".json"}
NewerThan(f, files) == {g \in files : g.stamp > f.stamp}

\* createBackup: the collections are read, the backup file is written, and
\* cleanOldBackups lists the directory.  When it holds more than maxBackups
\* backup files, cleanOldBackups goes on to fs.remove(path.join(backupDir,
\* file)): no path is in its scope (the module has none, createBackup's is
\* its own), so a ReferenceError is thrown before any file is removed and
\* createBackup fails with it.
createBackup(now) ==
    /\ LET data == ReadAll
           name == BackupFilename(now)
           written == Put(backups, name, BackupData(now, data))
           over == Cardinality(BackupFiles(written)) > maxBackups
       IN  /\ backups' = written
           /\ client' =
                 IF over
                 THEN [op |-> "createBackup", outcome |-> "error",
                       error |-> "ReferenceError", filename |-> name,
                       before |-> DOMAIN backups, records |-> 0]
                 ELSE [op |-> "createBackup", outcome |-> "success", error |-> "",
                       filename |-> name, before |-> DOMAIN backups,
                       records |-> TotalRecords(data)]
    /\ UNCHANGED <<users, attendance, logs, tokens, req, resp, analyticsCache, call,
                   loginAttempts, failures, tasks, devices, operation_logs>>

\* startAutomaticBackup: setInterval runs createBackup every interval (an
\* error of it is caught and printed).
AutomaticBackup(runs) ==
    /\ clock + interval <= runs * interval
    /\ clock' = clock + interval
    /\ createBackup(clock + interval)

\* The backups of a day and more, while the server appends to the ledger.
NextBackup ==
    \/ AutomaticBackup(MaxBackupRuns)
    \/ \E a \in ValidActions : LedgerAppend(Token(defaultUsers[3]), a)

SpecBackup == Init /\ [][NextBackup]_vars

(***************************************************************************)
(* SuperDatabase: validation of the items of a collection.                 *)
(***************************************************************************)
\* String.prototype.length, for the strings of this model (a bcrypt hash
\* has sixty characters).
Length ==
    [s \in {"", "ab", "admin", "supervisor1", "employee1", "temp1", "emp.one", "Office",
            "Audit", "undefined"} |->
        CASE s = "" -> 0
          [] s = "ab" -> 2
          [] s \in {"admin", "temp1", "Audit"} -> 5
          [] s = "Office" -> 6
          [] s = "emp.one" -> 7
          [] s = "employee1" -> 9
          [] s = "undefined" -> 9
          [] s = "supervisor1" -> 11]
HashLength == 60

\* /^[a-zA-Z0-9_]+$/.test(s) and /^[^\s@]+@[^\s@]+\.[^\s@]+$/.test(s), for
\* the strings of this model.
IsWord(s) == s \notin {"", "emp.one"}
IsEmail(s) ==
    s \in {"admin@company.com", "supervisor@company.com", "employee@company.com",
           "temp@company.com", "other@company.com"}

\* value === undefined || value === null || value === ''
IsMissing(value) == value = Undefined \/ value = ""

\* The errors of one rule, in the order validateData pushes them.
Problem(field, what) == <<[field |-> field, problem |-> what]>>
Unless(ok, field, what) == IF ok THEN <<>> ELSE Problem(field, what)

\* A required string with its minLength, maxLength (0: none), and whether
\* it matches the pattern and is in the enum of the rule.
StringRule(field, value, minLength, maxLength, matches, listed) ==
    IF IsMissing(value) THEN Problem(field, "is required")
    ELSE Unless(minLength = 0 \/ Length[value] >= minLength, field, "is too short")
         \o Unless(maxLength = 0 \/ Length[value] <= maxLength, field, "is too long")
         \o Unless(matches, field, "format is invalid")
         \o Unless(listed, field, "must be one of the enum")

\* validationRules.users: username, email, password, role.
ValidateUser(data) ==
    StringRule("username", data.username, 3, 50, IsWord(data.username), TRUE)
    \o StringRule("email", data.email, 0, 0, IsEmail(data.email), TRUE)
    \o Unless(HashLength >= 6, "password", "is too short")
    \o StringRule("role", data.role, 0, 0, TRUE,
                  data.role \in {"admin", "supervisor", "employee"})

\* validationRules.attendance: userId (a number in every record of this
\* model), username, action, timestamp, location.
ValidateAttendance(data) ==
    StringRule("username", data.username, 1, 0, TRUE, TRUE)
    \o StringRule("action", data.action, 0, 0, TRUE,
                  data.action \in {"sign-in", "sign-out"})
    \o (IF data.timestamp = Empty THEN Problem("timestamp", "is required")
        ELSE Unless(ParseDate(data.timestamp) # NaN, "timestamp", "must be a valid date"))
    \o (IF IsMissing(data.location) THEN <<>>
        ELSE Unless(Length[data.location] <= 100, "location", "is too long"))

\* validationRules.tasks: title, description, assignedTo (a number in every
\* task of this model), priority, status, dueDate.
ValidateTask(data) ==
    StringRule("title", data.title, 3, 200, TRUE, TRUE)
    \o (IF IsMissing(data.description) THEN <<>>
        ELSE Unless(Length[data.description] <= 1000, "description", "is too long"))
    \o StringRule("priority", data.priority, 0, 0, TRUE,
                  data.priority \in {"low", "medium", "high", "urgent"})
    \o StringRule("status", data.status, 0, 0, TRUE,
                  data.status \in {"pending", "in-progress", "completed", "cancelled"})
    \o (IF data.dueDate = Undefined THEN <<>>
        ELSE Unless(ParseDate(data.dueDate) # NaN, "dueDate", "must be a valid date"))

\* validateData(type, data): a type without rules is valid.
validateData(type, data) ==
    LET errors == CASE type = "users" -> ValidateUser(data)
                    [] type = "attendance" -> ValidateAttendance(data)
                    [] type = "tasks" -> ValidateTask(data)
                    [] OTHER -> <<>>
    IN  [valid |-> errors = <<>>, errors |-> errors]

(***************************************************************************)
(* SuperDatabase.writeData and restoreBackup, over the files of the        *)
(* database.                                                               *)
(***************************************************************************)
Types == <<"users", "attendance", "tasks", "devices", "logs">>

\* The files: the five collections and the operation log.
Files ==
    [users |-> users, attendance |-> attendance, tasks |-> tasks, devices |-> devices,
     logs |-> logs, operation_logs |-> operation_logs]

Collections(files) == [t \in Range(Types) |-> files[t]]

\* logOperation(operation, type, recordCount): the entry is pushed on the
\* operation log, of which the last thousand entries are kept.
keptLogEntries == 1000
logOperation(files, operation, type, recordCount, now) ==
    LET logEntry == [timestamp |-> ToISOString(now), operation |-> operation,
                     type |-> type, recordCount |-> recordCount,
                     checksum |-> calculateChecksum(<<operation, "-", type, "-",
                                                      recordCount>>)]
        pushed == Append(files.operation_logs, logEntry)
        kept == IF Len(pushed) > keptLogEntries
                THEN SubSeq(pushed, Len(pushed) - keptLogEntries + 1, Len(pushed))
                ELSE pushed
    IN  [files EXCEPT !.operation_logs = kept]

\* The first item of data that validateData refuses, or 0.
FirstInvalid(type, data) ==
    LET bad == {i \in DOMAIN data : ~validateData(type, data[i]).valid}
    IN  IF bad = {} THEN 0 ELSE CHOOSE i \in bad : \A j \in bad : i <= j

\* Faulty variant of writeData: the file is written before the items are
\* validated.
writeDataThenValidate(files, type, data, now) ==
    LET i == FirstInvalid(type, data)
    IN  IF i # 0
        THEN [ok |-> FALSE, error |-> validateData(type, data[i]).errors,
              files |-> [files EXCEPT ![type] = data]]
        ELSE [ok |-> TRUE, error |-> <<>>,
              files |-> logOperation([files EXCEPT ![type] = data], "write", type,
                                     IF Len(data) = 0 THEN 1 ELSE Len(data), now)]

\* writeData(type, data), data an array: the items are validated in order
\* and the first refused one throws; then the file is written and the
\* operation logged (recordCount: data.length || 1).
writeData(files, type, data, now) ==
    LET i == FirstInvalid(type, data)
    IN  IF i # 0
        THEN [ok |-> FALSE, error |-> validateData(type, data[i]).errors,
              files |-> files]
        ELSE [ok |-> TRUE, error |-> <<>>,
              files |-> logOperation([files EXCEPT ![type] = data], "write", type,
                                     IF Len(data) = 0 THEN 1 ELSE Len(data), now)]

\* The files become what an operation left.
Store(files) ==
    /\ users' = files.users
    /\ attendance' = files.attendance
    /\ tasks' = files.tasks
    /\ devices' = files.devices
    /\ logs' = files.logs
    /\ operation_logs' = files.operation_logs

\* A call of writeData(type, data).
WriteData(type, data) ==
    /\ Len(operation_logs) < MaxWrites
    /\ LET done == writeData(Files, type, data, clock)
       IN  /\ Store(done.files)
           /\ client' = [op |-> "writeData", type |-> type, data |-> data,
                         outcome |-> IF done.ok THEN "success" ELSE "error",
                         error |-> done.error, before |-> Files]
    /\ UNCHANGED <<clock, tokens, req, resp, analyticsCache, call, loginAttempts, failures,
                   backups>>

\* for (const [type, records] of Object.entries(backupData.data))
\*     await this.writeData(type, records):
\* the collections are written one after the other, from the i-th on, until
\* one is refused.
RECURSIVE RestoreFrom(_, _, _, _)
RestoreFrom(files, data, i, now) ==
    IF i > Len(Types) THEN [ok |-> TRUE, error |-> <<>>, files |-> files]
    ELSE LET done == writeData(files, Types[i], data[Types[i]], now)
         IN  IF done.ok THEN RestoreFrom(done.files, data, i + 1, now) ELSE done

\* restoreBackup(backupFilename)
RestoreBackup(backupFilename) ==
    /\ Len(operation_logs) + Len(Types) <= MaxOperations
    /\ LET found == backupFilename \in DOMAIN backups
           backupData == backups[backupFilename]
           sound == calculateChecksum(backupData.data) = backupData.metadata.checksum
           done == RestoreFrom(Files, backupData.data, 1, clock)
           result == [op |-> "restoreBackup", filename |-> backupFilename,
                      outcome |-> "error", error |-> <<>>, before |-> Collections(Files),
                      backup |-> IF found THEN backupData.data ELSE Collections(Files)]
       IN  IF ~found
           THEN /\ Store(Files)
                /\ client' = [result EXCEPT !.error = "Backup file not found"]
           ELSE IF ~sound
           THEN /\ Store(Files)
                /\ client' = [result EXCEPT !.error = "Backup file is corrupted"]
           ELSE /\ Store(done.files)
                /\ client' = IF done.ok THEN [result EXCEPT !.outcome = "success"]
                             ELSE [result EXCEPT !.error = done.error]
    /\ UNCHANGED <<clock, tokens, req, resp, analyticsCache, call, loginAttempts, failures,
                   backups>>

\* A backup file is damaged on the disk: its copy of the ledger is cut off.
DamageBackup(backupFilename) ==
    /\ backupFilename \in DOMAIN backups
    /\ backups[backupFilename].data.attendance # <<>>
    /\ backups' = [backups EXCEPT ![backupFilename].data.attendance = <<>>]
    /\ client' = NoClient
    /\ UNCHANGED <<users, attendance, logs, clock, tokens, req, resp, analyticsCache, call,
                   loginAttempts, failures, tasks, devices, operation_logs>>

\* POST /api/tasks: the task is pushed on the tasks file as the request
\* gives it (priority 'medium' by default, status 'pending').
Task(user, title, assignedTo, now) ==
    [id |-> now, title |-> title, description |-> Undefined, assignedTo |-> assignedTo,
     assignedBy |-> user.id, priority |-> "medium", status |-> "pending",
     dueDate |-> Undefined, createdAt |-> ToISOString(now)]

PostTask(user, title, assignedTo) ==
    /\ Len(tasks) < MaxTasks
    /\ tasks' = Append(tasks, Task(user, title, assignedTo, clock))
    /\ client' = NoClient
    /\ UNCHANGED <<users, attendance, logs, clock, tokens, req, resp, analyticsCache, call,
                   loginAttempts, failures, devices, operation_logs, backups>>

\* The data written by the callers of writeData: a collection of up to two
\* items, of which each passes the validation or does not.
Device == [id |-> 1, name |-> "Gate"]
WriteItems(type) ==
    CASE type = "attendance" ->
            { Record(Token(defaultUsers[3]), "sign-in", clock),
              Record(Token(defaultUsers[3]), "lunch", clock),
              Malformed(Token(defaultUsers[3]), "sign-out") }
      [] type = "tasks" ->
            { Task(Token(defaultUsers[2]), "Audit", 3, clock),
              Task(Token(defaultUsers[2]), "ab", 3, clock) }
      [] type = "users" ->
            { defaultUsers[1],
              User(4, "emp.one", "other@company.com", "secret1", "employee", FALSE, clock) }
      [] OTHER -> { Device }
WriteInputs(type) ==
    UNION { [1..n -> WriteItems(type)] : n \in 0..2 }

\* Calls of writeData, one after the other.
NextWrite ==
    \/ \E t \in {"users", "attendance", "tasks", "devices"} :
          \E d \in WriteInputs(t) : WriteData(t, d)

SpecWrite == Init /\ [][NextWrite]_vars

\* Backups are made and restored while the server appends to the ledger and
\* to the tasks.
NextRestore ==
    \/ AutomaticBackup(MaxRestoreRuns)
    \/ \E a \in ValidActions : LedgerAppend(Token(defaultUsers[3]), a)
    \/ \E title \in {"Audit", Undefined} : PostTask(Token(defaultUsers[2]), title, 3)
    \/ \E f \in DOMAIN backups \cup {BackupFilename(0)} : RestoreBackup(f)
    \/ \E f \in DOMAIN backups : DamageBackup(f)

SpecRestore == Init /\ [][NextRestore]_vars

(***************************************************************************)
(* Properties of the ledger routes.                                        *)
(***************************************************************************)
Last(s) == s[Len(s)]

\* C1: a GET /api/attendance that immediately follows a 201 of
\* POST /api/attendance returns a sequence that holds the returned record
\* exactly once, as its last element.
C1_AppendThenFetch ==
    (resp.type = "get" /\ resp.status = 200 /\ resp.afterPost) =>
        /\ resp.records # <<>>
        /\ Last(resp.records) = resp.afterRec
        /\ Count(resp.records, resp.afterRec) = 1

\* C2: the ledger is append-only: with requests that do not overlap, the
\* attendance collection before any step is a prefix of the collection
\* after it.
C2_AppendOnly == [][IsPrefix(attendance, attendance')]_vars

C2_Witness ==
    /\ Len(attendance) = 2
    /\ Len(users) = 4
    /\ resp.type = "report" /\ resp.status = 200

\* C3: when two POST /api/attendance both read the collection before either
\* writes it, both go on to their 201, and once both have written the
\* collection is what the later writer read (before the earlier one wrote,
\* so without the earlier writer's event) plus the later writer's record
\* alone.
C3_LastWriteWins ==
    /\ \A p \in Procs : req[p].wrote => req[p].pc \in {"logRead", "logWrite"}
    /\ \A p \in Procs, q \in Procs :
          (p # q /\ req[p].wrote /\ req[q].wrote /\ req[q].overlap) =>
              /\ attendance = Append(req[q].att, req[q].rec)
              /\ Len(attendance) = Len(req[q].att) + 1

\* An accepted event (answered 201) that the ledger does not hold.
C3_Witness ==
    /\ resp.type = "post" /\ resp.status = 201
    /\ resp.rec \notin Range(attendance)
    /\ \E q \in Procs : req[q].wrote /\ req[q].overlap

\* C4: the ids of the ledger are pairwise distinct and strictly increasing
\* in insertion order.
C4_UniqueIds ==
    \A i \in DOMAIN attendance, j \in DOMAIN attendance :
        i < j => attendance[i].id < attendance[j].id

\* C5: an action outside {sign-in, sign-out} is refused: no such event is in
\* the ledger and no 201 carries one.
C5_InvalidActionRejected ==
    /\ \A i \in DOMAIN attendance : attendance[i].action \in ValidActions
    /\ (resp.type = "post" /\ resp.status = 201) => resp.rec.action \in ValidActions

\* C6: when reading or writing the attendance collection fails in
\* POST /api/attendance, the step that answers 500 carries no record, leaves
\* the ledger and the activity log as they were and ends the request;
\* logActivity runs only for a request that has written the ledger.
C6_StorageFailure ==
    /\ [](\A p \in Procs :
            (req[p].kind = "post" /\ req[p].pc \in {"logRead", "logWrite"}) =>
                /\ req[p].wrote
                /\ Len(attendance) > 0)
    /\ [][(resp' # resp /\ resp'.type = "post" /\ resp'.status = 500) =>
            /\ attendance' = attendance
            /\ logs' = logs
            /\ resp'.rec = NoRec
            /\ req'[resp'.slot] = Idle]_vars

C6_Witness ==
    /\ resp.type = "post" /\ resp.status = 500
    /\ attendance # <<>>
    /\ logs # <<>>

\* C9: the weekly report holds exactly the ledger events whose timestamp is
\* not more than seven days before now, in ledger order: an event exactly
\* seven days old is in it, an event exactly eight days old is not.
Age(r, now) == now - r.timestamp.ms

C9_WeeklyWindow ==
    (resp.type = "report" /\ resp.status = 200 /\ resp.rtype = "weekly") =>
        /\ \A r \in Range(resp.ledger) :
              r \in Range(resp.records) <=> Age(r, resp.now) <= 7 * DayMs
        /\ \A r \in Range(resp.ledger) :
              /\ Age(r, resp.now) = 7 * DayMs => r \in Range(resp.records)
              /\ Age(r, resp.now) = 8 * DayMs => r \notin Range(resp.records)
        /\ Len(resp.records) =
              Cardinality({i \in DOMAIN resp.ledger : Age(resp.ledger[i], resp.now) <= 7 * DayMs})
        /\ resp.totalRecords = Len(resp.records)

C9_Witness ==
    /\ resp.type = "report" /\ resp.status = 200 /\ resp.rtype = "weekly"
    /\ \E r \in Range(resp.ledger) : Age(r, resp.now) = 8 * DayMs
    /\ \E r \in Range(resp.ledger) : Age(r, resp.now) <= DayMs
    /\ Len(resp.records) = 1

(***************************************************************************)
(* Properties of the windows computed in the browser.                      *)
(***************************************************************************)
\* C7: no report is returned for a window type other than daily, weekly,
\* monthly or custom, nor for a missing type: there is no default window.
C7_UnknownTypeFails ==
    client.op = "report" => client.asked \in ClientTypes

\* C8: no report is returned for type custom unless both a start and an end
\* bound are given.
C8_CustomNeedsBothBounds ==
    (client.op = "report" /\ client.asked = "custom") =>
        (client.start # Empty /\ client.end # Empty)

\* C10: every monthly window holds exactly the records whose timestamp is
\* not more than 30 days before now: the server's monthly filter, the
\* dashboard's monthRecords and DashboardEnhancements.getMonthRecords.
Within30Days(records, now) ==
    SelectSeq(records, LAMBDA r : Age(r, now) <= 30 * DayMs)

C10_MonthlyIs30Days ==
    /\ client.op = "dashboard" =>
          client.monthRecords = Within30Days(client.allRecords, client.now)
    /\ client.op = "stats" =>
          /\ MonthlyFilter(client.allRecords, client.now)
                = Within30Days(client.allRecords, client.now)
          /\ client.thisMonth = Within30Days(client.allRecords, client.now)

(***************************************************************************)
(* Properties of the aggregation helpers.                                  *)
(***************************************************************************)
\* C11: window filtering is idempotent: the daily, weekly and monthly
\* windows of the server and the date-range filter with fixed bounds, applied
\* to their own result with the same now, return that result unchanged, in
\* the same order.
C11_FilterIdempotent == client.op = "window" => client.twice = client.once

C11_Witness ==
    /\ client.op = "window" /\ client.type = "custom"
    /\ Len(client.once) = 2 /\ Len(client.input) = 3
    /\ client.once[1] # client.once[2]

\* The calendar date and the hour of a record, and the numbers of records
\* of a collection by date, user and action.
DateOf(r) == ToDateString(ParseDate(r.timestamp))
HourOf(r) == GetHours(ParseDate(r.timestamp))
OnDate(E, d, action) ==
    Cardinality({i \in DOMAIN E : DateOf(E[i]) = d /\ E[i].action = action})
ByUser(E, u, action) ==
    Cardinality({i \in DOMAIN E : E[i].username = u /\ E[i].action = action})
HourCount(E, h) == Cardinality({i \in DOMAIN E : HourOf(E[i]) = h})

\* The sum over the dates of a daily breakdown of signIns + signOuts.
DailyTotal(b) ==
    LET keys == OwnKeys(DOMAIN b)
        S[i \in 0..Len(keys)] ==
            IF i = 0 THEN 0 ELSE S[i - 1] + b[keys[i]].signIns + b[keys[i]].signOuts
    IN  S[Len(keys)]

\* C12: the counts of the daily breakdown (DashboardCharts.getDailyBreakdown,
\* AdvancedReporting.calculateAnalytics) sum to the number of events, and
\* every event is counted once under its own calendar date and its own
\* action: signIns of a date is the number of its sign-in events, signOuts
\* the number of its sign-out events.
C12_DailyBreakdownCountsAll ==
    client.op \in {"analytics", "charts"} =>
        LET b == client.dailyBreakdown
            E == client.input
        IN  /\ DailyTotal(b) = Len(E)
            /\ DOMAIN b = {DateOf(E[i]) : i \in DOMAIN E}
            /\ \A d \in DOMAIN b :
                  /\ b[d].signIns = OnDate(E, d, "sign-in")
                  /\ b[d].signOuts = OnDate(E, d, "sign-out")

\* The peak hours a result holds, the number n it cuts them at, and the
\* records they were computed from.
PeakOp == {"analytics", "charts", "attendanceAnalytics"}
PeakN == IF client.op = "analytics" THEN 3 ELSE IF client.op = "charts" THEN 8 ELSE 5
PeakInput == IF client.op = "attendanceAnalytics" THEN client.filtered ELSE client.input
HoursIn(E) == {HourOf(E[i]) : i \in DOMAIN E}
ReturnedHours(peak) == {peak[i].hour : i \in DOMAIN peak}

\* C13: for n = 3 (AdvancedReporting.calculateAnalytics), 5
\* (SuperDatabase.calculatePeakHours) and 8 (DashboardCharts.createPeakHoursChart)
\* the peak hours are at most n entries, each the count of its hour, and the
\* count of every entry returned is at least the count of every hour of the
\* hourly breakdown that is not returned.
C13_PeakHoursTopN ==
    client.op \in PeakOp =>
        LET peak == client.peakHours
            E == PeakInput
        IN  /\ Len(peak) <= PeakN
            /\ ReturnedHours(peak) \subseteq HoursIn(E)
            /\ \A i \in DOMAIN peak :
                  /\ peak[i].count = HourCount(E, peak[i].hour)
                  /\ \A h \in HoursIn(E) \ ReturnedHours(peak) :
                        peak[i].count >= HourCount(E, h)

\* The cut happens for each n: more hours than n, of which one left out has
\* a smaller count than one returned.
C13_Witness ==
    /\ client.op = "charts"
    /\ Len(client.peakHours) = 8
    /\ Cardinality(HoursIn(client.input)) = 9
    /\ \E h \in HoursIn(client.input) \ ReturnedHours(client.peakHours) :
          HourCount(client.input, h) = 1 /\ client.peakHours[8].count = 2

\* C14: the peak hours are sorted by count descending and, among equal
\* counts, by hour ascending; of the hours tied at the cut the lower ones are
\* returned.
C14_PeakHoursOrder ==
    client.op \in PeakOp =>
        LET peak == client.peakHours
            E == PeakInput
        IN  /\ \A i, j \in DOMAIN peak :
                  i < j => \/ peak[i].count > peak[j].count
                           \/ peak[i].count = peak[j].count /\ peak[i].hour < peak[j].hour
            /\ \A i \in DOMAIN peak, h \in HoursIn(E) \ ReturnedHours(peak) :
                  \/ peak[i].count > HourCount(E, h)
                  \/ peak[i].count = HourCount(E, h) /\ peak[i].hour < h

\* A tie at the cut, in a collection whose later records are of lower hours.
C14_Witness ==
    /\ client.op = "attendanceAnalytics"
    /\ Len(client.peakHours) = 5
    /\ \E h \in HoursIn(client.filtered) \ ReturnedHours(client.peakHours) :
          HourCount(client.filtered, h) = client.peakHours[5].count
    /\ HourOf(client.filtered[1]) > HourOf(client.filtered[Len(client.filtered)])

\* The sign-ins of a collection, the sum of their hours, and whether an
\* hour is more than 3 from their mean (compared without division).
SignIns(E) == SelectSeq(E, LAMBDA r : r.action = "sign-in")
HourSum(E) ==
    LET S[i \in 0..Len(E)] == IF i = 0 THEN 0 ELSE S[i - 1] + HourOf(E[i])
    IN  S[Len(E)]
Unusual(r, E) ==
    LET n == Len(SignIns(E))
        d == HourOf(r) * n - HourSum(SignIns(E))
    IN  d > 3 * n \/ -d > 3 * n

\* C15: SuperDatabase.detectAnomalies returns exactly one anomaly for each
\* sign-in whose hour is more than 3 from the mean hour of the sign-ins of
\* the input, in their order, and none for any other event; of the sign-ins
\* at hours 9, 9, 9, 9, 2 only the one at hour 2 is flagged.
C15_DetectAnomalies ==
    client.op = "attendanceAnalytics" =>
        LET E == client.filtered
            flagged == [i \in DOMAIN client.anomalies |-> client.anomalies[i].record]
        IN  /\ flagged = SelectSeq(E, LAMBDA r : r.action = "sign-in" /\ Unusual(r, E))
            /\ \A i \in DOMAIN client.anomalies :
                  /\ client.anomalies[i].type = "unusual_time"
                  /\ client.anomalies[i].record.action # "sign-out"
            /\ E = ScenarioLedger => flagged = <<ScenarioLedger[5]>>

C15_Witness ==
    /\ client.op = "attendanceAnalytics"
    /\ client.filtered = ScenarioLedger
    /\ Len(client.anomalies) = 1
    /\ client.anomalies[1].hour = 2

\* The records of a collection whose timestamp is a date.
WellFormed(E) == SelectSeq(E, LAMBDA r : ParseDate(r.timestamp) # NaN)

\* C16: aggregation over records of which one has an unparseable timestamp
\* yields the breakdowns (hourly, daily, per user), peak hours and windows of
\* the remaining records alone: the malformed record is in no count.
C16_MalformedExcluded ==
    /\ client.op = "analyticsInjected" =>
          LET rest == calculateAnalytics(WellFormed(client.input))
          IN  /\ client.hourlyBreakdown = rest.hourlyBreakdown
              /\ client.dailyBreakdown = rest.dailyBreakdown
              /\ client.userBreakdown = rest.userBreakdown
              /\ client.peakHours = rest.peakHours
    /\ client.op = "chartsInjected" =>
          LET rest == gatherDashboardData(WellFormed(client.input), client.now)
          IN  /\ client.hourlyBreakdown = rest.hourlyBreakdown
              /\ client.dailyBreakdown = rest.dailyBreakdown
              /\ client.userBreakdown = rest.userBreakdown
              /\ client.peakHours = createPeakHoursChart(rest)
              /\ client.todayRecords = rest.todayRecords
              /\ client.weekRecords = rest.weekRecords
              /\ client.monthRecords = rest.monthRecords

\* The per-user breakdown a result holds, and the records it was computed from.
UserBreakdownOf ==
    IF client.op = "attendanceAnalytics" THEN client.userActivity ELSE client.userBreakdown

\* C17: the per-user breakdown (DashboardCharts.getUserBreakdown,
\* SuperDatabase.calculateUserActivity, AdvancedReporting.calculateAnalytics)
\* is keyed by username: its keys are the usernames of the input, signIns of
\* a username is the number of sign-in events carrying it and signOuts the
\* number of sign-out events carrying it; events of one userId under two
\* usernames are counted under two keys.
C17_UserBreakdownByUsername ==
    client.op \in PeakOp =>
        LET b == UserBreakdownOf
            E == PeakInput
        IN  /\ DOMAIN b = {E[i].username : i \in DOMAIN E}
            /\ \A u \in DOMAIN b :
                  /\ b[u].signIns = ByUser(E, u, "sign-in")
                  /\ b[u].signOuts = ByUser(E, u, "sign-out")

(***************************************************************************)
(* Properties of the analytics cache.                                      *)
(***************************************************************************)
\* C18: every value getDataAnalytics returns was computed from records
\* read no more than cacheExpiry before the call: the staleness of served
\* analytics never exceeds the time-to-live of the cache.
C18_StalenessWithinTTL ==
    (client.op = "getDataAnalytics" /\ client.outcome = "data") =>
        client.calledAt - client.readAt <= cacheExpiry

\* C19: getDataAnalytics with a type outside attendance, users,
\* productivity, trends throws the unknown-type error and leaves the cache
\* as it was: no key of such a type is ever in the cache.
AnalyticsKinds == {"attendance", "users", "productivity", "trends"}

C19_UnknownKindFails ==
    /\ [](\A k \in DOMAIN analyticsCache : k[1] \in AnalyticsKinds)
    /\ [][(client' # client /\ client'.op = "getDataAnalytics"
           /\ client'.type \notin AnalyticsKinds) =>
             /\ client'.outcome = "error"
             /\ client'.error = "Unknown analytics type"
             /\ analyticsCache' = analyticsCache
             /\ call' = call]_vars

C19_Witness ==
    /\ client.op = "getDataAnalytics" /\ client.type = "yearly"
    /\ client.outcome = "error"
    /\ Cardinality(DOMAIN analyticsCache) = 2

\* C20: getDataAnalytics with each of the types attendance, users,
\* productivity and trends returns analytics (it fails only when the file
\* cannot be read), and the cache then holds them under the key of
\* (type, options).
C20_EveryKindAnswers ==
    (/\ client.op = "getDataAnalytics"
     /\ client.type \in AnalyticsKinds
     /\ client.error # "StorageUnavailable") =>
        /\ client.outcome = "data"
        /\ CacheKey(client.type, client.options) \in DOMAIN analyticsCache
        /\ analyticsCache[CacheKey(client.type, client.options)].data = client.data

(***************************************************************************)
(* Properties of overlapping getDataAnalytics calls.                       *)
(***************************************************************************)
\* C21: under overlapping getDataAnalytics calls for one (type, options) and
\* appends to the ledger, the data stored in the cache for that key are
\* never replaced by data computed from an earlier read of the ledger than
\* the data they replace.
C21_NeverReplacedByOlderRead ==
    [][\A k \in DOMAIN analyticsCache :
          k \in DOMAIN analyticsCache' =>
              analyticsCache'[k].readAt >= analyticsCache[k].readAt]_vars

(***************************************************************************)
(* Properties of the scores of the dashboard.                              *)
(***************************************************************************)
\* The events of E on the calendar day of now, and the events of E not
\* more than seven days before now.
TodayCount(E, now) ==
    Cardinality({i \in DOMAIN E : E[i].timestamp.iso
                                  /\ E[i].timestamp.ms \div DayMs = now \div DayMs})
RecentDays(E, now) ==
    {E[i].timestamp.ms \div DayMs :
        i \in {j \in DOMAIN E : E[j].timestamp.iso /\ E[j].timestamp.ms >= now - 7 * DayMs}}

\* C22: for every number n >= 0 of today's events the productivity score is
\* min(75 + min(2n, 25), 100), lies in 75..100, and is not lower than the
\* score of any smaller number of today's events.
C22_ProductivityScore ==
    client.op = "kpis" =>
        LET n == TodayCount(client.input, client.now)
            bonus == IF 2 * n <= 25 THEN 2 * n ELSE 25
        IN  /\ client.productivityScore = (IF 75 + bonus <= 100 THEN 75 + bonus ELSE 100)
            /\ client.productivityScore \in 75..100
            /\ \A m \in 0..Len(client.todayRecords) :
                  calculateProductivityScore(
                      [todayRecords |-> SubSeq(client.todayRecords, 1, m)])
                      <= client.productivityScore

\* Thirteen events today or more: the bonus is at its cap.
C22_Witness ==
    /\ client.op = "kpis"
    /\ TodayCount(client.input, client.now) >= 13
    /\ client.productivityScore = 100

\* C23: the consistency score is round(d / 7 * 100), d the number of
\* distinct calendar days with activity in the last seven days: d <= 7 and
\* the score is an integer in 0..100.
C23_ConsistencyScore ==
    client.op = "insights" =>
        LET d == Cardinality(RecentDays(client.input, client.now))
        IN  /\ 14 * client.consistencyScore <= 200 * d + 7
            /\ 200 * d + 7 < 14 * (client.consistencyScore + 1)
            /\ d <= 7
            /\ client.consistencyScore \in 0..100

(***************************************************************************)
(* Properties of the rate limit.                                           *)
(***************************************************************************)
\* C24: with checkRateLimit consulted before each attempt, it refuses a key
\* if and only if at least maxLoginAttempts failures have been recorded for
\* the key since its last success or its last lockout expiry and less than
\* lockoutDuration has passed since the latest of them; a success deletes
\* the record of the key.
C24_RateLimit ==
    /\ client.op = "checkRateLimit" =>
          (~client.allowed <=>
              /\ client.key \in DOMAIN failures
              /\ failures[client.key].count >= maxLoginAttempts
              /\ client.now - failures[client.key].last < lockoutDuration)
    /\ (client.op = "recordLoginAttempt" /\ client.success) =>
          client.key \notin DOMAIN loginAttempts

(***************************************************************************)
(* Properties of the backups.                                              *)
(***************************************************************************)
\* C25: after every createBackup call, whatever the number of backups
\* before it, createBackup has returned success and the directory holds at
\* most maxBackups backup files, the most recent ones by name: the older
\* ones are deleted.
C25_BackupsKept ==
    client.op = "createBackup" =>
        LET all == client.before \cup {client.filename}
        IN  /\ client.outcome = "success"
            /\ Cardinality(BackupFiles(backups)) <= maxBackups
            /\ \A f \in all :
                  f \in DOMAIN backups <=> Cardinality(NewerThan(f, all)) < maxBackups

(***************************************************************************)
(* Properties of restoreBackup and writeData.                              *)
(***************************************************************************)
\* C26: restoreBackup is all or nothing: when it throws (no such backup
\* file, a checksum that does not match, an item refused by the validation
\* in any collection of the backup) none of the collections users,
\* attendance, tasks, devices, logs has changed; when it returns success
\* every collection is the backup's copy.
C26_RestoreAllOrNothing ==
    client.op = "restoreBackup" =>
        /\ client.outcome = "error" => Collections(Files) = client.before
        /\ client.outcome = "success" => Collections(Files) = Collections(client.backup)

\* C27: writeData(type, data) validates before it writes: the collection is
\* replaced only if every item of data passes validateData(type, item), and
\* when an item fails writeData throws and the collection and the operation
\* log are as they were.
C27_ValidateBeforeWrite ==
    client.op = "writeData" =>
        LET passes == \A i \in DOMAIN client.data :
                          validateData(client.type, client.data[i]).valid
        IN  /\ Files[client.type] # client.before[client.type] => passes
            /\ ~passes =>
                  /\ client.outcome = "error"
                  /\ Files[client.type] = client.before[client.type]
                  /\ operation_logs = client.before.operation_logs
            /\ passes =>
                  /\ client.outcome = "success"
                  /\ Files[client.type] = client.data

\* A collection that holds items is kept when the data refused have a
\* valid item before the invalid one.
C27_Witness ==
    /\ client.op = "writeData"
    /\ client.outcome = "error"
    /\ Len(client.data) = 2
    /\ validateData(client.type, client.data[1]).valid
    /\ Files[client.type] # <<>>
    /\ operation_logs # <<>>

(***************************************************************************)
(* Properties of the reports and of the registrations.                     *)
(***************************************************************************)
\* s is t with some elements left out, the others in their order.
RECURSIVE IsSubsequence(_, _)
IsSubsequence(s, t) ==
    IF s = <<>> THEN TRUE
    ELSE IF t = <<>> THEN FALSE
    ELSE IF Head(s) = Head(t) THEN IsSubsequence(Tail(s), Tail(t))
    ELSE IsSubsequence(s, Tail(t))

\* C28: in every report of GET /api/reports/:type, over any ledger reachable
\* through the API, totalRecords is the length of records, signIns plus
\* signOuts is totalRecords, and records is a subsequence of the ledger in
\* insertion order.
C28_ReportTotals ==
    (resp.type = "report" /\ resp.status = 200) =>
        /\ resp.totalRecords = Len(resp.records)
        /\ resp.signIns + resp.signOuts = resp.totalRecords
        /\ IsSubsequence(resp.records, resp.ledger)

\* No two stored users share a username, an email or an id.
DistinctUsers(us) ==
    \A i \in DOMAIN us, j \in DOMAIN us :
        i # j => /\ us[i].username # us[j].username
                 /\ us[i].email # us[j].email
                 /\ us[i].id # us[j].id

\* C29: after any POST /api/register requests, overlapping ones too, no two
\* stored users share a username, an email or an id; a registration whose
\* username or email exists already does not go on to the write, and the
\* step that answers 400 leaves the users as they were.
C29_RegisterUnique ==
    /\ [](DistinctUsers(users))
    /\ [][\A p \in Procs :
             (req[p].pc = "idle" /\ req'[p].pc = "regWrite") =>
                 ~UserExists(users, req'[p].input)]_vars
    /\ [][(resp'.type = "register" /\ resp'.status = 400) => users' = users]_vars
    /\ [][(users' # users) =>
             \E p \in Procs : /\ req[p].pc = "regWrite"
                              /\ ~UserExists(req[p].usnap, req[p].input)
                              /\ resp'.status = 201]_vars

\* A registration in flight whose username or email an overlapping one has
\* stored since it read the file.
C29_Witness ==
    /\ \E p \in Procs : /\ req[p].pc = "regWrite"
                        /\ UserExists(users, req[p].input)
                        /\ ~UserExists(req[p].usnap, req[p].input)
    /\ Len(users) = 4

(***************************************************************************)
(* Properties of the logging step of POST /api/attendance.                 *)
(***************************************************************************)
\* The steps of logActivity in a POST /api/attendance whose ledger write has
\* succeeded leave the ledger as it is, and the request ends with a 201 that
\* carries its record, whether the log entry was appended or not.
LoggingKeepsEvent ==
    \A p \in Procs :
        (req[p].kind = "post" /\ req[p].pc \in {"logRead", "logWrite"}
           /\ req'[p].pc # req[p].pc) =>
            /\ req[p].wrote
            /\ attendance' = attendance
            /\ req'[p].pc = "idle" =>
                  resp' = [Status("post", p, 201) EXCEPT !.rec = req[p].rec]

\* C30 as stated: the logging step of POST /api/attendance cannot undo or
\* fail an accepted event, and whenever the request responds 201 the ledger
\* holds the event at the moment of the response.
C30_AcceptedEventInLedger ==
    /\ [][LoggingKeepsEvent]_vars
    /\ []((resp.type = "post" /\ resp.status = 201) => resp.rec \in Range(attendance))

\* C30, amended: the logging step of POST /api/attendance cannot undo or
\* fail an accepted event, and whenever the request responds 201 and no
\* other POST /api/attendance has written the ledger since this request
\* wrote it, the ledger holds the event at the moment of the response.
C30_LoggingCannotFail ==
    /\ [][LoggingKeepsEvent]_vars
    /\ [][\A p \in Procs :
             (req[p].kind = "post" /\ req[p].pc \in {"logRead", "logWrite"}
                /\ req'[p].pc = "idle" /\ ~req[p].overwritten) =>
                 /\ resp'.status = 201
                 /\ req[p].rec \in Range(attendance')]_vars

\* A 201 for an event the ledger holds, answered although no entry of the
\* activity log was written for it.
C30_Witness ==
    /\ resp.type = "post" /\ resp.status = 201
    /\ resp.rec \in Range(attendance)
    /\ \A i \in DOMAIN logs : logs[i].type # "attendance"

====
